---- MODULE Spec2Model ----
(***************************************************************************)
(* Context Mapper MCP server: the CML front end (lexer, parser, AST        *)
(* builder, validator, writer) and the tool layer that mutates the         *)
(* in-memory "current model".                                              *)
(*                                                                         *)
(* Text and names are strings and are processed character by character,    *)
(* as the regular expressions and string methods of the source do.         *)
(* Generated uuids are not modelled: they are fresh on every creation and  *)
(* are used only to address elements.  The reference                       *)
(* aggregate.aggregateRoot is modelled by the position of the entity in    *)
(* the aggregate's list; a relationship id is the number of relationships  *)
(* created before it, plus one.                                            *)
(* An optional value is a sequence of length 0 (undefined) or 1.           *)
(***************************************************************************)
EXTENDS Integers, Sequences, FiniteSets, TLC

VARIABLES
    currentModel,   \* model-tools.ts `let currentModel`: <<>> (null) or <<model>>
    uuids,          \* the number of relationship ids generated so far
    lastCall,       \* the last tool call: [op |-> ..., ...parameters]
    lastResult,     \* the value the last tool call returned
    pc,             \* "idle": waiting for a request; "responded": a result is being returned
    text,           \* round trip: the document / last serialized text
    parsed,         \* round trip: <<>> or <<ParseResult>> of the document
    text2,          \* round trip: <<>> or <<serializeCML(parsed model)>>
    parsed2,        \* round trip: <<>> or <<ParseResult of text2>>
    text3,          \* round trip: <<>> or <<serializeCML(re-parsed model)>>
    files,          \* TempFileContext.files: the file paths the context tracks
    dirs,           \* TempFileContext.dirs: the directory paths the context tracks
    disk,           \* the paths that exist in the file system
    createdPaths,   \* history: every path created through the context
    callback,       \* withTempFiles: where its callback and its finally block are
    proc,           \* CLIExecutor.execute: the spawned child process
    timedOut,       \* CLIExecutor.execute: `let timedOut`
    timeoutId,      \* CLIExecutor.execute: the timeout timer
    killTimer,      \* CLIExecutor.execute: the 5 second timer of the forced kill
    stdout,         \* CLIExecutor.execute: `let stdout`
    stderr,         \* CLIExecutor.execute: `let stderr`
    promise         \* CLIExecutor.execute: <<>> (pending) or <<the result it resolved with>>

vars == <<currentModel, uuids, lastCall, lastResult, pc, text, parsed, text2, parsed2, text3,
          files, dirs, disk, createdPaths, callback, proc, timedOut, timeoutId, killTimer,
          stdout, stderr, promise>>

toolVars == <<currentModel, uuids, lastCall, lastResult, pc>>
rtVars == <<text, parsed, text2, parsed2, text3>>
tempVars == <<files, dirs, disk, createdPaths, callback>>
execVars == <<proc, timedOut, timeoutId, killTimer, stdout, stderr, promise>>
envVars == <<tempVars, execVars>>

-----------------------------------------------------------------------------
(* Characters and strings                                                  *)

UpperAlphabet == "ABCDEFGHIJKLMNOPQRSTUVWXYZ"
LowerAlphabet == "abcdefghijklmnopqrstuvwxyz"
DigitAlphabet == "0123456789"

CharsOf(s) == { SubSeq(s, i, i) : i \in 1..Len(s) }

UpperChars == CharsOf(UpperAlphabet)
LowerChars == CharsOf(LowerAlphabet)
DigitChars == CharsOf(DigitAlphabet)

\* [a-zA-Z_]
IsIdStart(c) == c \in UpperChars \/ c \in LowerChars \/ c = "_"
\* [a-zA-Z0-9_]
IsIdChar(c) == IsIdStart(c) \/ c \in DigitChars
\* \s
IsSpace(c) == c \in {" ", "\t", "\n", "\r"}

CharAt(s, i) == SubSeq(s, i, i)

LowerChar(c) ==
    IF c \in UpperChars
    THEN LET i == CHOOSE k \in 1..Len(UpperAlphabet) : CharAt(UpperAlphabet, k) = c
         IN  CharAt(LowerAlphabet, i)
    ELSE c

UpperChar(c) ==
    IF c \in LowerChars
    THEN LET i == CHOOSE k \in 1..Len(LowerAlphabet) : CharAt(LowerAlphabet, k) = c
         IN  CharAt(UpperAlphabet, i)
    ELSE c

RECURSIVE toLowerCase(_)
toLowerCase(s) == IF s = "" THEN "" ELSE LowerChar(Head(s)) \o toLowerCase(Tail(s))

startsWith(s, p) == Len(s) >= Len(p) /\ SubSeq(s, 1, Len(p)) = p
endsWith(s, p) == Len(s) >= Len(p) /\ SubSeq(s, Len(s) - Len(p) + 1, Len(s)) = p
slice(s, n) == SubSeq(s, n + 1, Len(s))
includes(s, c) == \E i \in 1..Len(s) : CharAt(s, i) = c

RECURSIVE trimStart(_)
trimStart(s) == IF s # "" /\ IsSpace(Head(s)) THEN trimStart(Tail(s)) ELSE s

RECURSIVE trimEnd(_)
trimEnd(s) ==
    IF s # "" /\ IsSpace(CharAt(s, Len(s))) THEN trimEnd(SubSeq(s, 1, Len(s) - 1)) ELSE s

trim(s) == trimEnd(trimStart(s))

\* Array.prototype.join
RECURSIVE join(_, _)
join(xs, sep) ==
    IF Len(xs) = 0 THEN ""
    ELSE IF Len(xs) = 1 THEN xs[1]
    ELSE xs[1] \o sep \o join(Tail(xs), sep)

Range(f) == { f[i] : i \in DOMAIN f }

\* Array.prototype.filter
RECURSIVE SelectIdx(_, _, _)
SelectIdx(xs, keep, i) ==
    IF i > Len(xs) THEN <<>>
    ELSE (IF i \in keep THEN <<xs[i]>> ELSE <<>>) \o SelectIdx(xs, keep, i + 1)

\* Array.prototype.splice(idx, 1)
RemoveAt(xs, idx) == SelectIdx(xs, (1..Len(xs)) \ {idx}, 1)

\* Array.prototype.findIndex by name (0 when absent, positions count from 1)
FindIndex(xs, name) ==
    IF \E i \in 1..Len(xs) : xs[i].name = name
    THEN CHOOSE i \in 1..Len(xs) : xs[i].name = name /\ \A j \in 1..(i - 1) : xs[j].name # name
    ELSE 0

Names(xs) == { xs[i].name : i \in 1..Len(xs) }

\* Array.prototype.flatMap(m => m.aggregates)
RECURSIVE FlatAggregates(_)
FlatAggregates(mods) ==
    IF Len(mods) = 0 THEN <<>> ELSE mods[1].aggregates \o FlatAggregates(Tail(mods))

-----------------------------------------------------------------------------
(* validation.ts: identifier and attribute-type helpers                    *)

RECURSIVE ReplaceInvalidChars(_)
ReplaceInvalidChars(s) ==
    IF s = "" THEN ""
    ELSE (IF IsIdChar(Head(s)) THEN Head(s) ELSE "_") \o ReplaceInvalidChars(Tail(s))

\* sanitizeIdentifier that leaves a leading digit as it is
sanitizeIdentifier_noDigitPrefix(name) ==
    LET replaced == ReplaceInvalidChars(name)
    IN  IF replaced = "" THEN "_unnamed" ELSE replaced

sanitizeIdentifier(name) ==
    LET replaced == ReplaceInvalidChars(name)
        sanitized == IF replaced # "" /\ Head(replaced) \in DigitChars
                     THEN "_" \o replaced ELSE replaced
    IN  IF sanitized = "" THEN "_unnamed" ELSE sanitized

isValidIdentifier(name) ==
    /\ name # ""
    /\ IsIdStart(Head(name))
    /\ \A i \in 1..Len(name) : IsIdChar(CharAt(name, i))

VALID_PRIMITIVE_TYPES ==
    { "String", "string", "int", "Integer", "long", "Long", "float", "Float",
      "double", "Double", "boolean", "Boolean", "Date", "DateTime", "Timestamp",
      "Blob", "Clob", "BigDecimal", "BigInteger", "byte", "Byte", "short", "Short",
      "char", "Character", "Object", "UUID" }

\* /^kw\s*</
MatchesGenericOf(s, kw) ==
    startsWith(s, kw) /\ startsWith(trimStart(slice(s, Len(kw))), "<")

\* some pattern of INVALID_TYPE_PATTERNS matches
MatchesInvalidTypePattern(s) ==
    \/ MatchesGenericOf(s, "Map")
    \/ MatchesGenericOf(s, "Dictionary")
    \/ MatchesGenericOf(s, "Tuple")
    \/ s \in { "Tuple", "Any", "any", "dynamic", "void", "Callback", "Callbacks", "Runnable" }
    \/ MatchesGenericOf(s, "Function")

\* trimmedType.match(/^(List|Set)\s*<\s*(.+)\s*>$/): <<>> or <<group 2>>
CollectionMatch(s) ==
    LET kw == IF startsWith(s, "List") THEN "List" ELSE IF startsWith(s, "Set") THEN "Set" ELSE ""
        rest == trimStart(slice(s, Len(kw)))
        body == SubSeq(rest, 2, Len(rest) - 1)
        \* `.` matches no line terminator, the \s* around the group does
        core == trim(body)
    IN  IF kw # "" /\ startsWith(rest, "<") /\ endsWith(rest, ">") /\ Len(rest) >= 3
           /\ ~includes(core, "\n") /\ ~includes(core, "\r")
           /\ \E i \in 1..Len(body) : CharAt(body, i) \notin {"\n", "\r"}
        THEN <<body>> ELSE <<>>

\* validateAttributeType without the branch for a reference type (- TypeName)
validateAttributeType_noReference(type) ==
    LET trimmedType == trim(type)
        collectionMatch == CollectionMatch(trimmedType)
        innerType == trim(collectionMatch[1])
    IN  IF MatchesInvalidTypePattern(trimmedType) THEN FALSE
        ELSE IF collectionMatch # <<>> THEN
            IF includes(innerType, "<") THEN FALSE
            ELSE IF MatchesInvalidTypePattern(innerType) THEN FALSE
            ELSE isValidIdentifier(innerType) \/ innerType \in VALID_PRIMITIVE_TYPES
        ELSE IF trimmedType \in VALID_PRIMITIVE_TYPES THEN TRUE
        ELSE isValidIdentifier(trimmedType)

validateAttributeType(type) ==
    LET trimmedType == trim(type)
        collectionMatch == CollectionMatch(trimmedType)
        innerType == trim(collectionMatch[1])
    IN  IF MatchesInvalidTypePattern(trimmedType) THEN FALSE
        ELSE IF startsWith(trimmedType, "- ") THEN isValidIdentifier(trim(slice(trimmedType, 2)))
        ELSE IF collectionMatch # <<>> THEN
            IF includes(innerType, "<") THEN FALSE
            ELSE IF MatchesInvalidTypePattern(innerType) THEN FALSE
            ELSE isValidIdentifier(innerType) \/ innerType \in VALID_PRIMITIVE_TYPES
        ELSE IF trimmedType \in VALID_PRIMITIVE_TYPES THEN TRUE
        ELSE isValidIdentifier(trimmedType)

\* validateAttributes(...).valid
validateAttributes(attributes) ==
    \A i \in 1..Len(attributes) : validateAttributeType(attributes[i].type)

-----------------------------------------------------------------------------
(* Reserved domain-object names.  validation.ts exports                    *)
(* isReservedDomainObjectName, but the function body is not part of the    *)
(* available sources; it is modelled from ADR-004 and the project guide.   *)

RESERVED_DOMAIN_OBJECT_NAMES ==
    { "resource", "entity", "service", "command", "aggregate", "event",
      "repository", "module", "context", "process", "flow" }

ReservedAlternatives(name) ==
    LET lower == toLowerCase(name)
    IN  IF lower = "resource" THEN << "MCPResource", "DomainResource", "ResourceDefinition" >>
        ELSE IF lower = "entity" THEN << "DomainEntity" >>
        ELSE IF lower = "service" THEN << "DomainService", "ApplicationService" >>
        ELSE IF lower = "event" THEN << "DomainEvent" >>
        ELSE << "Domain" \o name >>

isReservedDomainObjectName(name) ==
    IF toLowerCase(name) \in RESERVED_DOMAIN_OBJECT_NAMES
    THEN [isReserved |-> TRUE, suggestion |-> join(ReservedAlternatives(name), ", ")]
    ELSE [isReserved |-> FALSE, suggestion |-> ""]

-----------------------------------------------------------------------------
(* The model (types.ts) and the element constructors of the tool layer     *)

NewModel(name) == [name |-> name, contextMap |-> <<>>, boundedContexts |-> <<>>]

NewAggregate(name, responsibilities, knowledgeLevel) ==
    [name |-> name, responsibilities |-> responsibilities, knowledgeLevel |-> knowledgeLevel,
     entities |-> <<>>, valueObjects |-> <<>>, domainEvents |-> <<>>, commands |-> <<>>,
     services |-> <<>>, aggregateRoot |-> 0]

\* (params.attributes || []).map(a => ({name, type, key, nullable}))
EntityAttributes(attributes) ==
    [i \in 1..Len(attributes) |->
        [name |-> attributes[i].name, type |-> attributes[i].type,
         key |-> attributes[i].key, nullable |-> attributes[i].nullable]]

\* (params.attributes || []).map(a => ({name, type}))
PlainAttributes(attributes) ==
    [i \in 1..Len(attributes) |->
        [name |-> attributes[i].name, type |-> attributes[i].type,
         key |-> FALSE, nullable |-> FALSE]]

NewEntity(name, aggregateRoot, attributes) ==
    [name |-> name, aggregateRoot |-> aggregateRoot,
     attributes |-> EntityAttributes(attributes), operations |-> <<>>]

NewAttributed(name, attributes) == [name |-> name, attributes |-> PlainAttributes(attributes)]

IdentifierValueObject(name) ==
    [name |-> name,
     attributes |-> << [name |-> "value", type |-> "String", key |-> FALSE, nullable |-> FALSE] >>]

NewService(name, operations) == [name |-> name, operations |-> operations]

Failure(error) == [success |-> FALSE, error |-> error]
Success(name) == [success |-> TRUE, error |-> "", name |-> name]

AllAggregates(bc) == bc.aggregates \o FlatAggregates(bc.modules)

\* aggregate-tools.ts findAggregate: <<>> or <<[bc, mod, agg]>>, mod = 0 for a direct child
findAggregate(cm, contextName, aggregateName) ==
    IF cm = <<>> THEN <<>>
    ELSE LET bcIdx == FindIndex(cm[1].boundedContexts, contextName)
         IN  IF bcIdx = 0 THEN <<>>
             ELSE LET bc == cm[1].boundedContexts[bcIdx]
                      aggIdx == FindIndex(bc.aggregates, aggregateName)
                      mods == { k \in 1..Len(bc.modules) :
                                  FindIndex(bc.modules[k].aggregates, aggregateName) # 0 }
                  IN  IF aggIdx # 0 THEN << [bc |-> bcIdx, mod |-> 0, agg |-> aggIdx] >>
                      ELSE IF mods # {} THEN
                          LET k == CHOOSE x \in mods : \A y \in mods : x <= y
                          IN  << [bc |-> bcIdx, mod |-> k,
                                  agg |-> FindIndex(bc.modules[k].aggregates, aggregateName)] >>
                      ELSE <<>>

AggregateAt(m, loc) ==
    IF loc.mod = 0 THEN m.boundedContexts[loc.bc].aggregates[loc.agg]
    ELSE m.boundedContexts[loc.bc].modules[loc.mod].aggregates[loc.agg]

WithAggregate(m, loc, agg) ==
    IF loc.mod = 0 THEN [m EXCEPT !.boundedContexts[loc.bc].aggregates[loc.agg] = agg]
    ELSE [m EXCEPT !.boundedContexts[loc.bc].modules[loc.mod].aggregates[loc.agg] = agg]

\* currentContext.replace(/Platform$|Context$|Server$/g, '')
StripContextSuffix(name) ==
    IF endsWith(name, "Platform") THEN SubSeq(name, 1, Len(name) - 8)
    ELSE IF endsWith(name, "Context") THEN SubSeq(name, 1, Len(name) - 7)
    ELSE IF endsWith(name, "Server") THEN SubSeq(name, 1, Len(name) - 6)
    ELSE name

DeclaresDomainObject(agg, name) ==
    \/ name \in Names(agg.valueObjects)
    \/ name \in Names(agg.entities)
    \/ name \in Names(agg.domainEvents)
    \/ name \in Names(agg.commands)

RECURSIVE FirstDeclaring(_, _)
FirstDeclaring(aggs, name) ==
    IF Len(aggs) = 0 THEN <<>>
    ELSE IF DeclaresDomainObject(aggs[1], name) THEN << aggs[1].name >>
    ELSE FirstDeclaring(Tail(aggs), name)

RECURSIVE FirstDuplicateLocation(_, _, _)
FirstDuplicateLocation(bcs, name, currentContext) ==
    IF Len(bcs) = 0 THEN <<>>
    ELSE LET hit == IF bcs[1].name = currentContext THEN <<>>
                    ELSE FirstDeclaring(AllAggregates(bcs[1]), name)
         IN  IF hit # <<>> THEN << bcs[1].name \o "." \o hit[1] >>
             ELSE FirstDuplicateLocation(Tail(bcs), name, currentContext)

checkForDuplicateDomainObjectName(cm, name, currentContext) ==
    LET loc == IF cm = <<>> THEN <<>>
               ELSE FirstDuplicateLocation(cm[1].boundedContexts, name, currentContext)
    IN  IF loc = <<>> THEN [isDuplicate |-> FALSE, existingLocation |-> "", suggestion |-> ""]
        ELSE [isDuplicate |-> TRUE, existingLocation |-> loc[1],
              suggestion |-> "Use a unique prefixed name like '"
                             \o StripContextSuffix(currentContext) \o name \o "' instead"]

NotFoundError(p) ==
    "Aggregate '" \o p.aggregateName \o "' not found in context '" \o p.contextName \o "'"

ReservedError(name, kind, suggestion) ==
    "'" \o name \o "' is a reserved CML keyword and cannot be used as " \o kind
        \o " name. Try: " \o suggestion

\* validateAttributes(...).errors, the per-pattern explanation left out
AttributeErrors(attributes, elementName) ==
    LET bad == { i \in 1..Len(attributes) : ~validateAttributeType(attributes[i].type) }
    IN  SelectIdx([i \in 1..Len(attributes) |->
                     "Attribute '" \o attributes[i].name \o "' in '" \o elementName
                        \o "' has invalid type"], bad, 1)

-----------------------------------------------------------------------------
(* aggregate-tools.ts: the tools, as functions from the current model and  *)
(* the parameters to the new current model and the returned result         *)

Out(cm, result) == [model |-> cm, result |-> result]

\* createAggregate without the reserved-name check, as addService is
createAggregate_noReservedCheck(cm, p) ==
    IF cm = <<>> THEN Out(cm, Failure("No model is currently loaded"))
    ELSE
    LET m == cm[1]
        bcIdx == FindIndex(m.boundedContexts, p.contextName)
        name == sanitizeIdentifier(p.name)
    IN  IF bcIdx = 0
        THEN Out(cm, Failure("Bounded context '" \o p.contextName \o "' not found"))
        ELSE IF name \in Names(m.boundedContexts[bcIdx].aggregates)
        THEN Out(cm, Failure("Aggregate '" \o name \o "' already exists in context '"
                                \o p.contextName \o "'"))
        ELSE Out(<< [m EXCEPT !.boundedContexts[bcIdx].aggregates =
                        Append(@, NewAggregate(name, p.responsibilities, p.knowledgeLevel))] >>,
                 Success(name))

createAggregate(cm, p) ==
    IF cm = <<>> THEN Out(cm, Failure("No model is currently loaded"))
    ELSE
    LET m == cm[1]
        bcIdx == FindIndex(m.boundedContexts, p.contextName)
        name == sanitizeIdentifier(p.name)
        reservedCheck == isReservedDomainObjectName(name)
    IN  IF bcIdx = 0
        THEN Out(cm, Failure("Bounded context '" \o p.contextName \o "' not found"))
        ELSE IF reservedCheck.isReserved
        THEN Out(cm, Failure(ReservedError(name, "an Aggregate", reservedCheck.suggestion)))
        ELSE IF name \in Names(m.boundedContexts[bcIdx].aggregates)
        THEN Out(cm, Failure("Aggregate '" \o name \o "' already exists in context '"
                                \o p.contextName \o "'"))
        ELSE Out(<< [m EXCEPT !.boundedContexts[bcIdx].aggregates =
                        Append(@, NewAggregate(name, p.responsibilities, p.knowledgeLevel))] >>,
                 Success(name))

\* p.newName = "" stands for an absent (or empty, hence falsy) newName;
\* p.responsibilities and p.knowledgeLevel are optional values
updateAggregate(cm, p) ==
    LET found == findAggregate(cm, p.contextName, p.aggregateName)
    IN  IF found = <<>> THEN Out(cm, Failure(NotFoundError(p)))
        ELSE
        LET agg == AggregateAt(cm[1], found[1])
            renamed == IF p.newName # "" THEN [agg EXCEPT !.name = sanitizeIdentifier(p.newName)]
                       ELSE agg
            withResp == IF p.responsibilities # <<>>
                        THEN [renamed EXCEPT !.responsibilities = p.responsibilities[1]]
                        ELSE renamed
            withLevel == IF p.knowledgeLevel # <<>>
                         THEN [withResp EXCEPT !.knowledgeLevel = p.knowledgeLevel]
                         ELSE withResp
        IN  Out(<< WithAggregate(cm[1], found[1], withLevel) >>, Success(withLevel.name))

deleteAggregate(cm, p) ==
    IF cm = <<>> THEN Out(cm, Failure("No model is currently loaded"))
    ELSE
    LET m == cm[1]
        bcIdx == FindIndex(m.boundedContexts, p.contextName)
        found == findAggregate(cm, p.contextName, p.aggregateName)
    IN  IF bcIdx = 0
        THEN Out(cm, Failure("Bounded context '" \o p.contextName \o "' not found"))
        ELSE IF found = <<>> THEN Out(cm, Failure(NotFoundError(p)))
        ELSE IF found[1].mod = 0
        THEN Out(<< [m EXCEPT !.boundedContexts[bcIdx].aggregates = RemoveAt(@, found[1].agg)] >>,
                 Success(p.aggregateName))
        ELSE Out(<< [m EXCEPT !.boundedContexts[bcIdx].modules[found[1].mod].aggregates =
                        RemoveAt(@, found[1].agg)] >>,
                 Success(p.aggregateName))

\* addEntity with the element pushed before its attributes are validated
addEntity_pushBeforeAttributeCheck(cm, p) ==
    LET found == findAggregate(cm, p.contextName, p.aggregateName)
        name == sanitizeIdentifier(p.name)
        reservedCheck == isReservedDomainObjectName(name)
        duplicateCheck == checkForDuplicateDomainObjectName(cm, name, p.contextName)
    IN  IF found = <<>> THEN Out(cm, Failure(NotFoundError(p)))
        ELSE
        LET aggregate == AggregateAt(cm[1], found[1])
            pushed == [aggregate EXCEPT
                         !.entities = Append(@, NewEntity(name, p.aggregateRoot, p.attributes))]
            rooted == IF p.aggregateRoot
                      THEN [pushed EXCEPT !.aggregateRoot = Len(pushed.entities)]
                      ELSE pushed
        IN  IF reservedCheck.isReserved
            THEN Out(cm, Failure(ReservedError(name, "an Entity", reservedCheck.suggestion)))
            ELSE IF name \in Names(aggregate.entities)
            THEN Out(cm, Failure("Entity '" \o name \o "' already exists in aggregate '"
                                    \o p.aggregateName \o "'"))
            ELSE IF duplicateCheck.isDuplicate
            THEN Out(cm, Failure("Entity name '" \o name \o "' already exists in "
                                    \o duplicateCheck.existingLocation \o ". "
                                    \o duplicateCheck.suggestion))
            ELSE IF ~validateAttributes(p.attributes)
            THEN Out(<< WithAggregate(cm[1], found[1], rooted) >>,
                     Failure(join(AttributeErrors(p.attributes, name), "\n")))
            ELSE Out(<< WithAggregate(cm[1], found[1], rooted) >>, Success(name))

addEntity(cm, p) ==
    LET found == findAggregate(cm, p.contextName, p.aggregateName)
        name == sanitizeIdentifier(p.name)
        reservedCheck == isReservedDomainObjectName(name)
        duplicateCheck == checkForDuplicateDomainObjectName(cm, name, p.contextName)
    IN  IF found = <<>> THEN Out(cm, Failure(NotFoundError(p)))
        ELSE
        LET aggregate == AggregateAt(cm[1], found[1])
            pushed == [aggregate EXCEPT
                         !.entities = Append(@, NewEntity(name, p.aggregateRoot, p.attributes))]
            rooted == IF p.aggregateRoot
                      THEN [pushed EXCEPT !.aggregateRoot = Len(pushed.entities)]
                      ELSE pushed
        IN  IF reservedCheck.isReserved
            THEN Out(cm, Failure(ReservedError(name, "an Entity", reservedCheck.suggestion)))
            ELSE IF name \in Names(aggregate.entities)
            THEN Out(cm, Failure("Entity '" \o name \o "' already exists in aggregate '"
                                    \o p.aggregateName \o "'"))
            ELSE IF duplicateCheck.isDuplicate
            THEN Out(cm, Failure("Entity name '" \o name \o "' already exists in "
                                    \o duplicateCheck.existingLocation \o ". "
                                    \o duplicateCheck.suggestion))
            ELSE IF ~validateAttributes(p.attributes)
            THEN Out(cm, Failure(join(AttributeErrors(p.attributes, name), "\n")))
            ELSE Out(<< WithAggregate(cm[1], found[1], rooted) >>, Success(name))

\* The labels addValueObject, addDomainEvent and addCommand put in their messages
KindLabel ==
    [valueObjects |-> [reserved |-> "a Value Object", exists |-> "Value object"],
     domainEvents |-> [reserved |-> "a Domain Event", exists |-> "Domain event"],
     commands     |-> [reserved |-> "a Command",      exists |-> "Command"]]

\* The common body of addValueObject, addDomainEvent and addCommand;
\* list is the aggregate's list the element goes to
AddAttributed(cm, p, list) ==
    LET found == findAggregate(cm, p.contextName, p.aggregateName)
        name == sanitizeIdentifier(p.name)
        reservedCheck == isReservedDomainObjectName(name)
        duplicateCheck == checkForDuplicateDomainObjectName(cm, name, p.contextName)
    IN  IF found = <<>> THEN Out(cm, Failure(NotFoundError(p)))
        ELSE
        LET aggregate == AggregateAt(cm[1], found[1])
            pushed == [aggregate EXCEPT ![list] = Append(@, NewAttributed(name, p.attributes))]
        IN  IF reservedCheck.isReserved
            THEN Out(cm, Failure(ReservedError(name, KindLabel[list].reserved,
                                               reservedCheck.suggestion)))
            ELSE IF name \in Names(aggregate[list])
            THEN Out(cm, Failure(KindLabel[list].exists \o " '" \o name
                                    \o "' already exists in aggregate '" \o p.aggregateName \o "'"))
            ELSE IF duplicateCheck.isDuplicate
            THEN Out(cm, Failure(KindLabel[list].exists \o " name '" \o name
                                    \o "' already exists in " \o duplicateCheck.existingLocation
                                    \o ". " \o duplicateCheck.suggestion))
            ELSE IF ~validateAttributes(p.attributes)
            THEN Out(cm, Failure(join(AttributeErrors(p.attributes, name), "\n")))
            ELSE Out(<< WithAggregate(cm[1], found[1], pushed) >>, Success(name))

addValueObject(cm, p) == AddAttributed(cm, p, "valueObjects")

addDomainEvent(cm, p) == AddAttributed(cm, p, "domainEvents")

addCommand(cm, p) == AddAttributed(cm, p, "commands")

\* name ends with "Id" and starts with a capital
NormalizeIdentifierName(raw) ==
    LET sanitized == sanitizeIdentifier(raw)
        suffixed == IF endsWith(sanitized, "Id") THEN sanitized ELSE sanitized \o "Id"
    IN  UpperChar(Head(suffixed)) \o Tail(suffixed)

addIdentifier(cm, p) ==
    LET found == findAggregate(cm, p.contextName, p.aggregateName)
        name == NormalizeIdentifierName(p.name)
        duplicateCheck == checkForDuplicateDomainObjectName(cm, name, p.contextName)
    IN  IF found = <<>> THEN Out(cm, Failure(NotFoundError(p)))
        ELSE
        LET aggregate == AggregateAt(cm[1], found[1])
            pushed == [aggregate EXCEPT !.valueObjects = Append(@, IdentifierValueObject(name))]
        IN  IF name \in Names(aggregate.valueObjects) THEN Out(cm, Success(name))
            ELSE IF duplicateCheck.isDuplicate
            THEN Out(cm, Failure("Identifier name '" \o name \o "' already exists in "
                                    \o duplicateCheck.existingLocation \o ". "
                                    \o duplicateCheck.suggestion))
            ELSE Out(<< WithAggregate(cm[1], found[1], pushed) >>, Success(name))

addService(cm, p) ==
    LET found == findAggregate(cm, p.contextName, p.aggregateName)
        name == sanitizeIdentifier(p.name)
    IN  IF found = <<>> THEN Out(cm, Failure(NotFoundError(p)))
        ELSE
        LET aggregate == AggregateAt(cm[1], found[1])
            pushed == [aggregate EXCEPT !.services = Append(@, NewService(name, p.operations))]
        IN  IF name \in Names(aggregate.services)
            THEN Out(cm, Failure("Service '" \o name \o "' already exists in aggregate '"
                                    \o p.aggregateName \o "'"))
            ELSE Out(<< WithAggregate(cm[1], found[1], pushed) >>, Success(name))

deleteEntity(cm, p) ==
    LET found == findAggregate(cm, p.contextName, p.aggregateName)
    IN  IF found = <<>> THEN Out(cm, Failure(NotFoundError(p)))
        ELSE
        LET aggregate == AggregateAt(cm[1], found[1])
            idx == FindIndex(aggregate.entities, p.name)
            root == aggregate.aggregateRoot
            \* the reference survives the splice unless it was cleared
            rootAfter == IF root # 0 /\ aggregate.entities[root].name = p.name THEN 0
                         ELSE IF root > idx THEN root - 1
                         ELSE root
        IN  IF idx = 0
            THEN Out(cm, Failure("Entity '" \o p.name \o "' not found in aggregate '"
                                    \o p.aggregateName \o "'"))
            ELSE Out(<< WithAggregate(cm[1], found[1],
                            [aggregate EXCEPT !.entities = RemoveAt(@, idx),
                                              !.aggregateRoot = rootAfter]) >>,
                     Success(p.name))

\* The common body of deleteValueObject, deleteDomainEvent, deleteCommand and deleteService
DeleteFrom(cm, p, list, label) ==
    LET found == findAggregate(cm, p.contextName, p.aggregateName)
    IN  IF found = <<>> THEN Out(cm, Failure(NotFoundError(p)))
        ELSE
        LET aggregate == AggregateAt(cm[1], found[1])
            idx == FindIndex(aggregate[list], p.name)
        IN  IF idx = 0
            THEN Out(cm, Failure(label \o " '" \o p.name \o "' not found in aggregate '"
                                    \o p.aggregateName \o "'"))
            ELSE Out(<< WithAggregate(cm[1], found[1],
                            [aggregate EXCEPT ![list] = RemoveAt(@, idx)]) >>,
                     Success(p.name))

deleteValueObject(cm, p) == DeleteFrom(cm, p, "valueObjects", "Value object")

deleteDomainEvent(cm, p) == DeleteFrom(cm, p, "domainEvents", "Domain event")

deleteCommand(cm, p) == DeleteFrom(cm, p, "commands", "Command")

deleteService(cm, p) == DeleteFrom(cm, p, "services", "Service")

-----------------------------------------------------------------------------
(* aggregate-tools.ts batchAddElements: phase 1 validates every element,   *)
(* phase 2 creates them                                                    *)

EmptyCreated ==
    [entities |-> <<>>, valueObjects |-> <<>>, identifiers |-> <<>>,
     domainEvents |-> <<>>, commands |-> <<>>, services |-> <<>>]

BatchFailure(errors) == [success |-> FALSE, created |-> EmptyCreated, errors |-> errors]

\* Per element type: the aggregate's list and the labels of the messages
BatchKind ==
    [valueObject |-> [list |-> "valueObjects", reserved |-> "a Value Object",
                      exists |-> "Value object"],
     entity      |-> [list |-> "entities", reserved |-> "an Entity", exists |-> "Entity"],
     domainEvent |-> [list |-> "domainEvents", reserved |-> "a Domain Event",
                      exists |-> "Domain event"],
     command     |-> [list |-> "commands", reserved |-> "a Command", exists |-> "Command"]]

\* The name an element of the batch is validated and created under
BatchName(kind, el) ==
    IF kind = "identifier" THEN NormalizeIdentifierName(el.name) ELSE sanitizeIdentifier(el.name)

\* The checks of one iteration of a validation loop on the element named name, given
\* the results of the helpers: <<>> or the error message
CheckedElementError(kind, el, name, batchNames, p, aggregate, duplicateCheck, reservedCheck) ==
    IF kind = "identifier" THEN
        IF name \in batchNames THEN << "Duplicate name '" \o name \o "' within this batch" >>
        ELSE IF duplicateCheck.isDuplicate
        THEN << "Identifier name '" \o name \o "' already exists in "
                  \o duplicateCheck.existingLocation \o ". " \o duplicateCheck.suggestion >>
        ELSE <<>>
    ELSE IF kind = "service" THEN
        IF name \in Names(aggregate.services)
        THEN << "Service '" \o name \o "' already exists in aggregate '"
                  \o p.aggregateName \o "'" >>
        ELSE <<>>
    ELSE IF reservedCheck.isReserved
    THEN << ReservedError(name, BatchKind[kind].reserved, reservedCheck.suggestion) >>
    ELSE IF name \in batchNames
    THEN << "Duplicate name '" \o name \o "' within this batch" >>
    ELSE IF name \in Names(aggregate[BatchKind[kind].list])
    THEN << BatchKind[kind].exists \o " '" \o name \o "' already exists in aggregate '"
              \o p.aggregateName \o "'" >>
    ELSE IF duplicateCheck.isDuplicate
    THEN << BatchKind[kind].exists \o " name '" \o name \o "' already exists in "
              \o duplicateCheck.existingLocation \o ". " \o duplicateCheck.suggestion >>
    ELSE IF ~validateAttributes(el.attributes)
    THEN << join(AttributeErrors(el.attributes, name), "; ") >>
    ELSE <<>>

NamedElementError(kind, el, name, batchNames, cm, p, aggregate) ==
    CheckedElementError(kind, el, name, batchNames, p, aggregate,
                        checkForDuplicateDomainObjectName(cm, name, p.contextName),
                        isReservedDomainObjectName(name))

ElementError(kind, el, batchNames, cm, p, aggregate) ==
    NamedElementError(kind, el, BatchName(kind, el), batchNames, cm, p, aggregate)

\* What a loop records for an element that passed its checks
Accept(kind, name, st) ==
    IF kind = "service" THEN st
    ELSE IF kind = "identifier"
    THEN [st EXCEPT !.batchNames = @ \cup {name},
                    !.normalizedIdentifiers = Append(@, name)]
    ELSE [st EXCEPT !.batchNames = @ \cup {name}]

batchFailFast(p) == p.failFast # << FALSE >>

RECURSIVE ValidateElements(_, _, _, _, _, _)

\* validationErrors.push({ elementType, name, error })
Rejected(kind, name, err, st) ==
    [st EXCEPT !.validationErrors =
        Append(@, [elementType |-> kind, name |-> name, error |-> err[1]])]

\* One iteration of a validation loop, the checks of the element having given err
ValidateElement(kind, els, st, cm, p, aggregate, name, err) ==
    IF err # <<>>
    THEN IF batchFailFast(p) THEN Rejected(kind, name, err, st)
         ELSE ValidateElements(kind, Tail(els), Rejected(kind, name, err, st), cm, p, aggregate)
    ELSE ValidateElements(kind, Tail(els), Accept(kind, name, st), cm, p, aggregate)

\* One validation loop: an error ends it when failFast, else the loop goes on
ValidateElements(kind, els, st, cm, p, aggregate) ==
    IF Len(els) = 0 THEN st
    ELSE ValidateElement(kind, els, st, cm, p, aggregate, BatchName(kind, Head(els)),
                         ElementError(kind, Head(els), st.batchNames, cm, p, aggregate))

\* if (validationErrors.length === 0 || !failFast) { for ... }
ValidatePhase(kind, els, st, cm, p, aggregate) ==
    IF Len(st.validationErrors) = 0 \/ ~batchFailFast(p)
    THEN ValidateElements(kind, els, st, cm, p, aggregate)
    ELSE st

batchValidate(cm, p, aggregate) ==
    LET s0 == [validationErrors |-> <<>>, batchNames |-> {}, normalizedIdentifiers |-> <<>>]
        s1 == ValidateElements("identifier", p.identifiers, s0, cm, p, aggregate)
        s2 == ValidatePhase("valueObject", p.valueObjects, s1, cm, p, aggregate)
        s3 == ValidatePhase("entity", p.entities, s2, cm, p, aggregate)
        s4 == ValidatePhase("domainEvent", p.domainEvents, s3, cm, p, aggregate)
        s5 == ValidatePhase("command", p.commands, s4, cm, p, aggregate)
    IN  ValidatePhase("service", p.services, s5, cm, p, aggregate)

\* Phase 2, identifiers: an existing value object of that name is returned
RECURSIVE CreateIdentifiers(_, _)
CreateIdentifiers(names, aggregate) ==
    IF Len(names) = 0 THEN aggregate
    ELSE IF Head(names) \in Names(aggregate.valueObjects)
    THEN CreateIdentifiers(Tail(names), aggregate)
    ELSE CreateIdentifiers(Tail(names),
            [aggregate EXCEPT !.valueObjects = Append(@, IdentifierValueObject(Head(names)))])

\* Phase 2, entities: each entity flagged aggregateRoot takes the reference
RECURSIVE CreateEntities(_, _)
CreateEntities(els, aggregate) ==
    IF Len(els) = 0 THEN aggregate
    ELSE LET e == Head(els)
             pushed == [aggregate EXCEPT !.entities =
                          Append(@, NewEntity(sanitizeIdentifier(e.name), e.aggregateRoot,
                                              e.attributes))]
         IN  CreateEntities(Tail(els),
                IF e.aggregateRoot THEN [pushed EXCEPT !.aggregateRoot = Len(pushed.entities)]
                ELSE pushed)

CreatedAttributed(els) ==
    [i \in 1..Len(els) |-> NewAttributed(sanitizeIdentifier(els[i].name), els[i].attributes)]

CreatedServices(els) ==
    [i \in 1..Len(els) |-> NewService(sanitizeIdentifier(els[i].name), els[i].operations)]

SanitizedNames(els) == [i \in 1..Len(els) |-> sanitizeIdentifier(els[i].name)]

batchCreate(p, normalizedIdentifiers, aggregate) ==
    LET a1 == CreateIdentifiers(normalizedIdentifiers, aggregate)
        a2 == [a1 EXCEPT !.valueObjects = @ \o CreatedAttributed(p.valueObjects)]
        a3 == CreateEntities(p.entities, a2)
    IN  [a3 EXCEPT !.domainEvents = @ \o CreatedAttributed(p.domainEvents),
                   !.commands = @ \o CreatedAttributed(p.commands),
                   !.services = @ \o CreatedServices(p.services)]

\* The names the result reports as created
CreatedNames(p, normalizedIdentifiers) ==
    [entities |-> SanitizedNames(p.entities),
     valueObjects |-> SanitizedNames(p.valueObjects),
     identifiers |-> normalizedIdentifiers,
     domainEvents |-> SanitizedNames(p.domainEvents),
     commands |-> SanitizedNames(p.commands),
     services |-> SanitizedNames(p.services)]

\* The model with the elements of the batch created in the aggregate at found
BatchCreated(cm, p, found, normalizedIdentifiers) ==
    << WithAggregate(cm[1], found,
                     batchCreate(p, normalizedIdentifiers, AggregateAt(cm[1], found))) >>

\* Phase 2 creating the elements although some failed validation when the errors
\* are collected (failFast=false)
BatchChecked_createsDespiteErrors(cm, p, found, checked) ==
    IF Len(checked.validationErrors) > 0
    THEN Out(IF batchFailFast(p) THEN cm
             ELSE BatchCreated(cm, p, found, checked.normalizedIdentifiers),
             BatchFailure(checked.validationErrors))
    ELSE Out(BatchCreated(cm, p, found, checked.normalizedIdentifiers),
             [success |-> TRUE, created |-> CreatedNames(p, checked.normalizedIdentifiers),
              errors |-> <<>>])

\* After phase 1 gave checked: any validation error returns, else phase 2 creates
BatchChecked(cm, p, found, checked) ==
    IF Len(checked.validationErrors) > 0
    THEN Out(cm, BatchFailure(checked.validationErrors))
    ELSE Out(BatchCreated(cm, p, found, checked.normalizedIdentifiers),
             [success |-> TRUE, created |-> CreatedNames(p, checked.normalizedIdentifiers),
              errors |-> <<>>])

\* The batch on the aggregate that findAggregate gave
BatchInAggregate(cm, p, found) ==
    IF found = <<>>
    THEN Out(cm, BatchFailure(<< [elementType |-> "aggregate", name |-> p.aggregateName,
                                  error |-> NotFoundError(p)] >>))
    ELSE BatchChecked(cm, p, found[1], batchValidate(cm, p, AggregateAt(cm[1], found[1])))

batchAddElements(cm, p) ==
    IF cm = <<>>
    THEN Out(cm, BatchFailure(<< [elementType |-> "model", name |-> "",
                                  error |-> "No model is currently loaded"] >>))
    ELSE BatchInAggregate(cm, p, findAggregate(cm, p.contextName, p.aggregateName))

-----------------------------------------------------------------------------
(* model-tools, context-tools.ts and relationship-tools.ts                 *)

createModel(cm, p) == Out(<< NewModel(p.name) >>, Success(p.name))

NewBoundedContext(name, p) ==
    [name |-> name, domainVisionStatement |-> p.domainVisionStatement,
     responsibilities |-> p.responsibilities,
     implementationTechnology |-> p.implementationTechnology,
     knowledgeLevel |-> p.knowledgeLevel, aggregates |-> <<>>, modules |-> <<>>]

createBoundedContext(cm, p) ==
    IF cm = <<>> THEN Out(cm, Failure("No model is currently loaded"))
    ELSE
    LET m == cm[1]
        name == sanitizeIdentifier(p.name)
        pushed == [m EXCEPT !.boundedContexts = Append(@, NewBoundedContext(name, p))]
    IN  IF name \in Names(m.boundedContexts)
        THEN Out(cm, Failure("Bounded context '" \o name \o "' already exists"))
        ELSE IF m.contextMap # <<>>
        THEN Out(<< [pushed EXCEPT !.contextMap[1].boundedContexts = Append(@, name)] >>,
                 Success(name))
        ELSE Out(<< pushed >>, Success(name))

\* Array.prototype.indexOf (0 when absent, positions count from 1)
IndexOf(names, x) ==
    LET hits == { i \in 1..Len(names) : names[i] = x }
    IN  IF hits = {} THEN 0 ELSE CHOOSE i \in hits : \A j \in hits : i <= j

\* boundedContexts.indexOf(oldName): the first occurrence is replaced
ReplaceFirst(names, oldName, newName) ==
    IF IndexOf(names, oldName) = 0 THEN names
    ELSE [names EXCEPT ![IndexOf(names, oldName)] = newName]

\* A rename of a bounded context that leaves the relationships as they are
RenameInRelationship_unchanged(rel, oldName, newName) == rel

RenameInRelationship(rel, oldName, newName) ==
    IF rel.type \in {"Partnership", "SharedKernel"}
    THEN [rel EXCEPT !.participant1 = IF @ = oldName THEN newName ELSE @,
                     !.participant2 = IF @ = oldName THEN newName ELSE @]
    ELSE [rel EXCEPT !.upstream = IF @ = oldName THEN newName ELSE @,
                     !.downstream = IF @ = oldName THEN newName ELSE @]

\* p.newName = "" stands for an absent newName; the other properties are optional values
updateBoundedContext(cm, p) ==
    IF cm = <<>> THEN Out(cm, Failure("No model is currently loaded"))
    ELSE
    LET m == cm[1]
        idx == FindIndex(m.boundedContexts, p.name)
        newName == sanitizeIdentifier(p.newName)
        oldName == m.boundedContexts[idx].name
        mapRenamed ==
            IF m.contextMap = <<>> THEN m
            ELSE [m EXCEPT
                    !.contextMap[1].boundedContexts = ReplaceFirst(@, oldName, newName),
                    !.contextMap[1].relationships =
                        [i \in 1..Len(@) |-> RenameInRelationship(@[i], oldName, newName)]]
        renamed == IF p.newName = "" THEN m
                   ELSE [mapRenamed EXCEPT !.boundedContexts[idx].name = newName]
        bc == renamed.boundedContexts[idx]
        \* params.x || undefined: an empty string clears the property
        updated ==
            [bc EXCEPT
               !.domainVisionStatement =
                   IF p.domainVisionStatement = <<>> THEN @
                   ELSE IF p.domainVisionStatement[1] = "" THEN <<>>
                   ELSE p.domainVisionStatement,
               !.responsibilities =
                   IF p.responsibilities = <<>> THEN @ ELSE p.responsibilities[1],
               !.implementationTechnology =
                   IF p.implementationTechnology = <<>> THEN @
                   ELSE IF p.implementationTechnology[1] = "" THEN <<>>
                   ELSE p.implementationTechnology,
               !.knowledgeLevel = IF p.knowledgeLevel = <<>> THEN @ ELSE p.knowledgeLevel]
    IN  IF idx = 0 THEN Out(cm, Failure("Bounded context '" \o p.name \o "' not found"))
        ELSE IF p.newName # "" /\ newName # oldName /\ newName \in Names(m.boundedContexts)
        THEN Out(cm, Failure("Bounded context '" \o newName \o "' already exists"))
        ELSE Out(<< [renamed EXCEPT !.boundedContexts[idx] = updated] >>, Success(updated.name))

InvolvesContext(rel, name) ==
    IF rel.type \in {"Partnership", "SharedKernel"}
    THEN rel.participant1 = name \/ rel.participant2 = name
    ELSE rel.upstream = name \/ rel.downstream = name

deleteBoundedContext(cm, p) ==
    IF cm = <<>> THEN Out(cm, Failure("No model is currently loaded"))
    ELSE
    LET m == cm[1]
        idx == FindIndex(m.boundedContexts, p.name)
        spliced == [m EXCEPT !.boundedContexts = RemoveAt(@, idx)]
        rels == m.contextMap[1].relationships
        kept == { i \in 1..Len(rels) : ~InvolvesContext(rels[i], p.name) }
    IN  IF idx = 0 THEN Out(cm, Failure("Bounded context '" \o p.name \o "' not found"))
        ELSE IF m.contextMap = <<>> THEN Out(<< spliced >>, Success(p.name))
        ELSE Out(<< [spliced EXCEPT
                       !.contextMap[1].boundedContexts = RemoveAt(@, IndexOf(@, p.name)),
                       !.contextMap[1].relationships = SelectIdx(rels, kept, 1)] >>,
                 Success(p.name))

\* p.name = "" stands for an absent name; p.state is an optional value
createContextMap(cm, p) ==
    IF cm = <<>> THEN Out(cm, Failure("No model is currently loaded"))
    ELSE IF cm[1].contextMap # <<>> THEN Out(cm, Failure("Context map already exists in model"))
    ELSE
    LET m == cm[1]
        name == IF p.name = "" THEN "MainContextMap" ELSE p.name
    IN  Out(<< [m EXCEPT !.contextMap =
                    << [name |-> name, state |-> p.state,
                        boundedContexts |->
                            [i \in 1..Len(m.boundedContexts) |-> m.boundedContexts[i].name],
                        relationships |-> <<>>] >>] >>,
            Success(name))

\* The relationships carry the id they were created with; a symmetric one leaves the
\* upstream-downstream fields empty and the other way round
createRelationship(cm, p, id) ==
    IF cm = <<>> THEN Out(cm, Failure("No model is currently loaded"))
    ELSE IF cm[1].contextMap = <<>>
    THEN Out(cm, Failure("No context map exists. Create one first with cml_create_context_map"))
    ELSE
    LET m == cm[1]
        bcNames == Names(m.boundedContexts)
        upstreamContext == m.boundedContexts[FindIndex(m.boundedContexts, p.upstream)]
        aggNames == Names(upstreamContext.aggregates)
        missing == { i \in 1..Len(p.exposedAggregates) : p.exposedAggregates[i] \notin aggNames }
        rel == [id |-> id, type |-> p.type, name |-> p.name,
                participant1 |-> "", participant2 |-> "", upstream |-> "", downstream |-> "",
                upstreamPatterns |-> <<>>, downstreamPatterns |-> <<>>,
                exposedAggregates |-> <<>>]
        symmetric == [rel EXCEPT !.participant1 = p.participant1,
                                 !.participant2 = p.participant2]
        upDown == [rel EXCEPT !.upstream = p.upstream, !.downstream = p.downstream,
                              !.upstreamPatterns = p.upstreamPatterns,
                              !.downstreamPatterns = p.downstreamPatterns,
                              !.exposedAggregates = p.exposedAggregates]
        Pushed(r) == << [m EXCEPT !.contextMap[1].relationships = Append(@, r)] >>
    IN  IF p.type \in {"Partnership", "SharedKernel"} THEN
            IF p.participant1 = "" \/ p.participant2 = ""
            THEN Out(cm, Failure("Symmetric relationships require participant1 and participant2"))
            ELSE IF p.participant1 \notin bcNames
            THEN Out(cm, Failure("Bounded context '" \o p.participant1 \o "' not found"))
            ELSE IF p.participant2 \notin bcNames
            THEN Out(cm, Failure("Bounded context '" \o p.participant2 \o "' not found"))
            ELSE Out(Pushed(symmetric), Success(p.type))
        ELSE IF p.type = "UpstreamDownstream" THEN
            IF p.upstream = "" \/ p.downstream = ""
            THEN Out(cm, Failure("Upstream-downstream relationships require upstream and downstream context names"))
            ELSE IF p.upstream \notin bcNames
            THEN Out(cm, Failure("Bounded context '" \o p.upstream \o "' not found"))
            ELSE IF p.downstream \notin bcNames
            THEN Out(cm, Failure("Bounded context '" \o p.downstream \o "' not found"))
            ELSE IF missing # {}
            THEN Out(cm, Failure("Aggregate '"
                    \o p.exposedAggregates[CHOOSE i \in missing : \A j \in missing : i <= j]
                    \o "' not found in upstream context '" \o p.upstream \o "'"))
            ELSE Out(Pushed(upDown), Success(p.type))
        ELSE Out(cm, Failure("Unknown relationship type: " \o p.type))

\* find(r => r.id === id): the position of the relationship, 0 when absent
RelationshipIndex(rels, id) ==
    LET hits == { i \in 1..Len(rels) : rels[i].id = id }
    IN  IF hits = {} THEN 0 ELSE CHOOSE i \in hits : \A j \in hits : i <= j

\* p.name, p.upstreamPatterns, p.downstreamPatterns, p.exposedAggregates are optional values
updateRelationship(cm, p) ==
    IF cm = <<>> THEN Out(cm, Failure("No model is currently loaded"))
    ELSE IF cm[1].contextMap = <<>> THEN Out(cm, Failure("No context map exists"))
    ELSE
    LET m == cm[1]
        rels == m.contextMap[1].relationships
        idx == RelationshipIndex(rels, p.id)
        named == IF p.name # <<>> THEN [rels[idx] EXCEPT !.name = p.name[1]] ELSE rels[idx]
        updated ==
            IF named.type = "UpstreamDownstream"
            THEN [named EXCEPT
                    !.upstreamPatterns = IF p.upstreamPatterns = <<>> THEN @
                                         ELSE p.upstreamPatterns[1],
                    !.downstreamPatterns = IF p.downstreamPatterns = <<>> THEN @
                                           ELSE p.downstreamPatterns[1],
                    !.exposedAggregates = IF p.exposedAggregates = <<>> THEN @
                                          ELSE p.exposedAggregates[1]]
            ELSE named
    IN  IF idx = 0 THEN Out(cm, Failure("Relationship with id not found"))
        ELSE Out(<< [m EXCEPT !.contextMap[1].relationships[idx] = updated] >>,
                 Success(updated.type))

deleteRelationship(cm, p) ==
    IF cm = <<>> THEN Out(cm, Failure("No model is currently loaded"))
    ELSE IF cm[1].contextMap = <<>> THEN Out(cm, Failure("No context map exists"))
    ELSE
    LET m == cm[1]
        idx == RelationshipIndex(m.contextMap[1].relationships, p.id)
    IN  IF idx = 0 THEN Out(cm, Failure("Relationship with id not found"))
        ELSE Out(<< [m EXCEPT !.contextMap[1].relationships = RemoveAt(@, idx)] >>,
                 Success("relationship"))

-----------------------------------------------------------------------------
(* validation.ts validateModel: the list of errors and warnings, in the    *)
(* order the validator pushes them                                         *)

Error(message) == [type |-> "error", message |-> message]
Warning(message) == [type |-> "warning", message |-> message]

RECURSIVE Flatten(_)
Flatten(xss) == IF Len(xss) = 0 THEN <<>> ELSE Head(xss) \o Flatten(Tail(xss))

\* One entry per element whose name a Set of the names seen so far already has
Repeated(names) == { i \in 1..Len(names) : \E j \in 1..(i - 1) : names[j] = names[i] }

NameSeq(xs) == [i \in 1..Len(xs) |-> xs[i].name]

\* validateAggregate that counts no roots: the warning for none, no error for several
validateAggregate_noRootCount(agg, bcName) ==
    LET roots == { i \in 1..Len(agg.entities) : agg.entities[i].aggregateRoot }
        entityNames == NameSeq(agg.entities)
        voNames == NameSeq(agg.valueObjects)
    IN  (IF roots = {} /\ Len(agg.entities) > 0
         THEN << Warning("Aggregate '" \o agg.name \o "' in '" \o bcName
                            \o "' has entities but no aggregate root defined") >>
         ELSE <<>>)
        \o SelectIdx([i \in 1..Len(entityNames) |->
                        Error("Duplicate entity name '" \o entityNames[i] \o "' in aggregate '"
                                 \o agg.name \o "'")],
                     Repeated(entityNames), 1)
        \o SelectIdx([i \in 1..Len(voNames) |->
                        Error("Duplicate value object name '" \o voNames[i] \o "' in aggregate '"
                                 \o agg.name \o "'")],
                     Repeated(voNames), 1)

validateAggregate(agg, bcName) ==
    LET roots == { i \in 1..Len(agg.entities) : agg.entities[i].aggregateRoot }
        entityNames == NameSeq(agg.entities)
        voNames == NameSeq(agg.valueObjects)
    IN  (IF roots = {} /\ Len(agg.entities) > 0
         THEN << Warning("Aggregate '" \o agg.name \o "' in '" \o bcName
                            \o "' has entities but no aggregate root defined") >>
         ELSE <<>>)
        \o (IF Cardinality(roots) > 1
            THEN << Error("Aggregate '" \o agg.name \o "' in '" \o bcName
                             \o "' has multiple aggregate roots") >>
            ELSE <<>>)
        \o SelectIdx([i \in 1..Len(entityNames) |->
                        Error("Duplicate entity name '" \o entityNames[i] \o "' in aggregate '"
                                 \o agg.name \o "'")],
                     Repeated(entityNames), 1)
        \o SelectIdx([i \in 1..Len(voNames) |->
                        Error("Duplicate value object name '" \o voNames[i] \o "' in aggregate '"
                                 \o agg.name \o "'")],
                     Repeated(voNames), 1)

validateBoundedContext(bc) ==
    LET aggs == AllAggregates(bc)
        aggNames == NameSeq(aggs)
    IN  (IF Len(bc.aggregates) = 0 /\ Len(bc.modules) = 0
         THEN << Warning("Bounded context '" \o bc.name \o "' has no aggregates or modules") >>
         ELSE <<>>)
        \o Flatten([i \in 1..Len(aggs) |->
                (IF i \in Repeated(aggNames)
                 THEN << Error("Duplicate aggregate name '" \o aggs[i].name
                                  \o "' in bounded context '" \o bc.name \o "'") >>
                 ELSE <<>>)
                \o validateAggregate(aggs[i], bc.name)])

\* validateRelationship with a warning for either kind of relationship with itself
validateRelationship_selfIsWarning(rel, bcNames) ==
    IF rel.type \in {"Partnership", "SharedKernel"} THEN
        (IF rel.participant1 \notin bcNames
         THEN << Error("Relationship references non-existent bounded context: "
                          \o rel.participant1) >>
         ELSE <<>>)
        \o (IF rel.participant2 \notin bcNames
            THEN << Error("Relationship references non-existent bounded context: "
                             \o rel.participant2) >>
            ELSE <<>>)
        \o (IF rel.participant1 = rel.participant2
            THEN << Warning("Symmetric relationship between same context: "
                               \o rel.participant1) >>
            ELSE <<>>)
    ELSE IF rel.type = "UpstreamDownstream" THEN
        (IF rel.upstream \notin bcNames
         THEN << Error("Relationship references non-existent upstream context: "
                          \o rel.upstream) >>
         ELSE <<>>)
        \o (IF rel.downstream \notin bcNames
            THEN << Error("Relationship references non-existent downstream context: "
                             \o rel.downstream) >>
            ELSE <<>>)
        \o (IF rel.upstream = rel.downstream
            THEN << Warning("Upstream-downstream relationship cannot be between same context: "
                             \o rel.upstream) >>
            ELSE <<>>)
    ELSE <<>>

validateRelationship(rel, bcNames) ==
    IF rel.type \in {"Partnership", "SharedKernel"} THEN
        (IF rel.participant1 \notin bcNames
         THEN << Error("Relationship references non-existent bounded context: "
                          \o rel.participant1) >>
         ELSE <<>>)
        \o (IF rel.participant2 \notin bcNames
            THEN << Error("Relationship references non-existent bounded context: "
                             \o rel.participant2) >>
            ELSE <<>>)
        \o (IF rel.participant1 = rel.participant2
            THEN << Warning("Symmetric relationship between same context: "
                               \o rel.participant1) >>
            ELSE <<>>)
    ELSE IF rel.type = "UpstreamDownstream" THEN
        (IF rel.upstream \notin bcNames
         THEN << Error("Relationship references non-existent upstream context: "
                          \o rel.upstream) >>
         ELSE <<>>)
        \o (IF rel.downstream \notin bcNames
            THEN << Error("Relationship references non-existent downstream context: "
                             \o rel.downstream) >>
            ELSE <<>>)
        \o (IF rel.upstream = rel.downstream
            THEN << Error("Upstream-downstream relationship cannot be between same context: "
                             \o rel.upstream) >>
            ELSE <<>>)
    ELSE <<>>

\* validateContextMap that looks at the relationships and not at the contains list
validateContextMap_relationshipsOnly(model) ==
    LET contextMap == model.contextMap[1]
        bcNames == Names(model.boundedContexts)
    IN  Flatten([i \in 1..Len(contextMap.relationships) |->
                   validateRelationship(contextMap.relationships[i], bcNames)])

validateContextMap(model) ==
    LET contextMap == model.contextMap[1]
        bcNames == Names(model.boundedContexts)
        listed == contextMap.boundedContexts
    IN  SelectIdx([i \in 1..Len(listed) |->
                     Error("Context map references non-existent bounded context: "
                              \o listed[i])],
                  { i \in 1..Len(listed) : listed[i] \notin bcNames }, 1)
        \o Flatten([i \in 1..Len(contextMap.relationships) |->
                      validateRelationship(contextMap.relationships[i], bcNames)])

\* The (name, location) pairs in the order the four loops over every aggregate visit them
DomainObjectEntries(model) ==
    Flatten([b \in 1..Len(model.boundedContexts) |->
        LET bc == model.boundedContexts[b]
            aggs == AllAggregates(bc)
        IN  Flatten([a \in 1..Len(aggs) |->
                LET At(xs) == [i \in 1..Len(xs) |->
                                 [name |-> xs[i].name,
                                  location |-> bc.name \o "." \o aggs[a].name]]
                IN  At(aggs[a].valueObjects) \o At(aggs[a].entities)
                        \o At(aggs[a].domainEvents) \o At(aggs[a].commands)])])

\* validateNoDuplicateDomainObjectNames with an error for every declaration of the name
validateNoDuplicateDomainObjectNames_perDeclaration(model) ==
    LET entries == DomainObjectEntries(model)
        names == NameSeq(entries)
        LocationsOf(name) ==
            SelectIdx([i \in 1..Len(entries) |-> entries[i].location],
                      { i \in 1..Len(entries) : names[i] = name }, 1)
    IN  SelectIdx([i \in 1..Len(entries) |->
                     Error("Ambiguous domain object name '" \o names[i]
                              \o "' defined in multiple locations: "
                              \o join(LocationsOf(names[i]), ", "))],
                  { i \in 1..Len(entries) : Len(LocationsOf(names[i])) > 1 }, 1)

\* One error per name with more than one location; the advice that ends the message left out
validateNoDuplicateDomainObjectNames(model) ==
    LET entries == DomainObjectEntries(model)
        names == NameSeq(entries)
        firsts == (1..Len(entries)) \ Repeated(names)
        LocationsOf(name) ==
            SelectIdx([i \in 1..Len(entries) |-> entries[i].location],
                      { i \in 1..Len(entries) : names[i] = name }, 1)
    IN  SelectIdx([i \in 1..Len(entries) |->
                     Error("Ambiguous domain object name '" \o names[i]
                              \o "' defined in multiple locations: "
                              \o join(LocationsOf(names[i]), ", "))],
                  { i \in firsts : Len(LocationsOf(names[i])) > 1 }, 1)

validateModel(model) ==
    LET bcNames == NameSeq(model.boundedContexts)
        errors ==
            (IF model.contextMap # <<>> THEN validateContextMap(model) ELSE <<>>)
            \o Flatten([i \in 1..Len(model.boundedContexts) |->
                          validateBoundedContext(model.boundedContexts[i])])
            \o SelectIdx([i \in 1..Len(bcNames) |->
                            Error("Duplicate bounded context name: " \o bcNames[i])],
                         Repeated(bcNames), 1)
            \o validateNoDuplicateDomainObjectNames(model)
    IN  [valid |-> \A i \in 1..Len(errors) : errors[i].type # "error", errors |-> errors]

ErrorCount(model) ==
    Cardinality({ i \in 1..Len(validateModel(model).errors) :
                    validateModel(model).errors[i].type = "error" })

-----------------------------------------------------------------------------
(* writer.ts: the model as CML text.  Each write* gives the lines it       *)
(* pushes, indented for the depth it is called at                          *)

RESERVED_KEYWORDS ==
    { "abstract", "action", "aggregate", "aggregateRoot", "application", "assert", "async",
      "boundedContext", "by",
      "case", "catch", "class", "command", "contains", "context",
      "def", "default", "description", "do", "domain", "domainEvent",
      "domainVisionStatement",
      "else", "entity", "enum", "event", "exposedAggregates", "extends",
      "false", "final", "finally", "for", "function",
      "gap", "get",
      "hint", "hook",
      "if", "implements", "implementationTechnology", "import", "in", "input", "instanceof",
      "key", "knowledgeLevel",
      "let", "list",
      "map", "module", "name",
      "new", "null", "nullable",
      "of", "operation", "optional", "output",
      "package", "param", "path", "plateau", "private", "protected", "public",
      "query",
      "ref", "repository", "required", "responsibilities", "result", "return",
      "scaffold", "service", "set", "state", "static", "subdomain", "super", "switch",
      "this", "throw", "trait", "true", "try", "type",
      "url", "use",
      "value", "valueObject", "var", "version", "void",
      "while", "with" }

escapeIdentifier(name) == IF toLowerCase(name) \in RESERVED_KEYWORDS THEN "^" \o name ELSE name

\* str.replace(/\\/g, '\\\\').replace(/"/g, '\\"')
RECURSIVE escapeString(_)
escapeString(str) ==
    IF str = "" THEN ""
    ELSE IF Head(str) = "\\" THEN "\\\\" \o escapeString(Tail(str))
    ELSE IF Head(str) = "\"" THEN "\\\"" \o escapeString(Tail(str))
    ELSE Head(str) \o escapeString(Tail(str))

\* '\t'.repeat(indent) + text
RECURSIVE write(_, _)
write(indent, line) == IF indent = 0 THEN line ELSE "\t" \o write(indent - 1, line)

Quoted(strings) == [i \in 1..Len(strings) |-> "\"" \o escapeString(strings[i]) \o "\""]

writeAttribute(attr, indent) ==
    << write(indent, attr.type \o " " \o escapeIdentifier(attr.name)
                        \o (IF attr.key THEN " key" ELSE "")
                        \o (IF attr.nullable THEN " nullable" ELSE "")) >>

writeOperation(op, indent) ==
    LET params == [i \in 1..Len(op.parameters) |->
                      op.parameters[i].type \o " " \o op.parameters[i].name]
    IN  << write(indent, "def " \o (IF op.returnType = "" THEN "void" ELSE op.returnType)
                            \o " " \o op.name \o "(" \o join(params, ", ") \o ")") >>

\* The braces and the body of an element that has one
Block(header, body, indent) ==
    << write(indent, header \o " {") >> \o body \o << write(indent, "}") >>

writeEntity(entity, indent) ==
    IF Len(entity.attributes) = 0 /\ Len(entity.operations) = 0 /\ ~entity.aggregateRoot
    THEN << write(indent, "Entity " \o entity.name) >>
    ELSE Block("Entity " \o entity.name,
               (IF entity.aggregateRoot THEN << write(indent + 1, "aggregateRoot") >> ELSE <<>>)
               \o Flatten([i \in 1..Len(entity.attributes) |->
                             writeAttribute(entity.attributes[i], indent + 1)])
               \o Flatten([i \in 1..Len(entity.operations) |->
                             writeOperation(entity.operations[i], indent + 1)]),
               indent)

\* writeValueObject, writeDomainEvent and writeCommand differ in the keyword only
WriteAttributed(keyword, element, indent) ==
    IF Len(element.attributes) = 0
    THEN << write(indent, keyword \o " " \o element.name) >>
    ELSE Block(keyword \o " " \o element.name,
               Flatten([i \in 1..Len(element.attributes) |->
                          writeAttribute(element.attributes[i], indent + 1)]),
               indent)

writeValueObject(vo, indent) == WriteAttributed("ValueObject", vo, indent)

writeDomainEvent(event, indent) == WriteAttributed("DomainEvent", event, indent)

writeCommand(cmd, indent) == WriteAttributed("Command", cmd, indent)

\* writeService that writes the braces of a Service whatever it holds
writeService_alwaysBraces(svc, indent) ==
    Block("Service " \o svc.name,
          Flatten([i \in 1..Len(svc.operations) |->
                     writeOperation(svc.operations[i], indent + 1)]),
          indent)

writeService(svc, indent) ==
    IF Len(svc.operations) = 0
    THEN << write(indent, "Service " \o svc.name) >>
    ELSE Block("Service " \o svc.name,
               Flatten([i \in 1..Len(svc.operations) |->
                          writeOperation(svc.operations[i], indent + 1)]),
               indent)

writeAggregate(agg, indent) ==
    Block("Aggregate " \o agg.name,
          (IF Len(agg.responsibilities) > 0
           THEN << write(indent + 1, "responsibilities = "
                                        \o join(Quoted(agg.responsibilities), ", ")) >>
           ELSE <<>>)
          \o (IF agg.knowledgeLevel # <<>>
              THEN << write(indent + 1, "knowledgeLevel = " \o agg.knowledgeLevel[1]) >>
              ELSE <<>>)
          \o Flatten([i \in 1..Len(agg.entities) |->
                        << "" >> \o writeEntity(agg.entities[i], indent + 1)])
          \o Flatten([i \in 1..Len(agg.valueObjects) |->
                        << "" >> \o writeValueObject(agg.valueObjects[i], indent + 1)])
          \o Flatten([i \in 1..Len(agg.domainEvents) |->
                        << "" >> \o writeDomainEvent(agg.domainEvents[i], indent + 1)])
          \o Flatten([i \in 1..Len(agg.commands) |->
                        << "" >> \o writeCommand(agg.commands[i], indent + 1)])
          \o Flatten([i \in 1..Len(agg.services) |->
                        << "" >> \o writeService(agg.services[i], indent + 1)]),
          indent)

writeModule(mod, indent) ==
    Block("Module " \o mod.name,
          Flatten([i \in 1..Len(mod.aggregates) |->
                     writeAggregate(mod.aggregates[i], indent + 1) \o << "" >>]),
          indent)

\* A string property is written when it is set and not empty
StringProperty(keyword, value, indent) ==
    IF value # <<>> /\ value[1] # ""
    THEN << write(indent, keyword \o " = \"" \o escapeString(value[1]) \o "\"") >>
    ELSE <<>>

writeBoundedContext(bc, indent) ==
    Block("BoundedContext " \o bc.name,
          StringProperty("domainVisionStatement", bc.domainVisionStatement, indent + 1)
          \o (IF Len(bc.responsibilities) > 0
              THEN << write(indent + 1, "responsibilities = "
                                           \o join(Quoted(bc.responsibilities), ", ")) >>
              ELSE <<>>)
          \o StringProperty("implementationTechnology", bc.implementationTechnology,
                            indent + 1)
          \o (IF bc.knowledgeLevel # <<>>
              THEN << write(indent + 1, "knowledgeLevel = " \o bc.knowledgeLevel[1]) >>
              ELSE <<>>)
          \o Flatten([i \in 1..Len(bc.aggregates) |->
                        << "" >> \o writeAggregate(bc.aggregates[i], indent + 1)])
          \o Flatten([i \in 1..Len(bc.modules) |->
                        << "" >> \o writeModule(bc.modules[i], indent + 1)]),
          indent)

writeRelationship(rel, indent) ==
    IF rel.type \in {"Partnership", "SharedKernel"}
    THEN << write(indent, rel.participant1 \o " [" \o rel.type \o "] " \o rel.participant2) >>
    ELSE IF rel.type = "UpstreamDownstream" THEN
        LET upstreamPatterns ==
                IF Len(rel.upstreamPatterns) > 0
                THEN "[U," \o join(rel.upstreamPatterns, ",") \o "]" ELSE "[U]"
            downstreamPatterns ==
                IF Len(rel.downstreamPatterns) > 0
                THEN "[D," \o join(rel.downstreamPatterns, ",") \o "]" ELSE "[D]"
            line == rel.upstream \o " " \o upstreamPatterns \o " -> " \o downstreamPatterns
                        \o " " \o rel.downstream
        IN  IF Len(rel.exposedAggregates) > 0
            THEN Block(line,
                       << write(indent + 1, "exposedAggregates = "
                                               \o join(rel.exposedAggregates, ", ")) >>,
                       indent)
            ELSE << write(indent, line) >>
    ELSE <<>>

writeContextMap(contextMap, indent) ==
    Block("ContextMap " \o contextMap.name,
          (IF contextMap.state # <<>>
           THEN << write(indent + 1, "state = " \o contextMap.state[1]) >> ELSE <<>>)
          \o (IF Len(contextMap.boundedContexts) > 0
              THEN << write(indent + 1, "contains " \o join(contextMap.boundedContexts, ", ")) >>
              ELSE <<>>)
          \o << "" >>
          \o Flatten([i \in 1..Len(contextMap.relationships) |->
                        writeRelationship(contextMap.relationships[i], indent + 1)]),
          indent)

serialize(model) ==
    join((IF model.contextMap # <<>>
          THEN writeContextMap(model.contextMap[1], 0) \o << "" >> ELSE <<>>)
         \o Flatten([i \in 1..Len(model.boundedContexts) |->
                       writeBoundedContext(model.boundedContexts[i], 0) \o << "" >>]),
         "\n")

serializeCML(model) == serialize(model)

-----------------------------------------------------------------------------
(* parser.ts, the lexer: at each position the first token type of          *)
(* allTokens whose pattern matches is taken; a keyword with longer_alt     *)
(* gives way to Identifier when the identifier match is longer             *)

\* The number of characters from position pos on that satisfy Ok, up to the first that does not
RunLength(str, pos, Ok(_)) ==
    LET stops == { i \in pos..Len(str) : ~Ok(CharAt(str, i)) }
    IN  IF stops = {} THEN Len(str) - pos + 1
        ELSE (CHOOSE i \in stops : \A j \in stops : i <= j) - pos

StartsAt(str, pos, image) ==
    pos + Len(image) - 1 <= Len(str) /\ SubSeq(str, pos, pos + Len(image) - 1) = image

\* The first position at or after pos where image starts, 0 when there is none
FindFrom(str, pos, image) ==
    LET hits == { i \in pos..Len(str) : StartsAt(str, i, image) }
    IN  IF hits = {} THEN 0 ELSE CHOOSE i \in hits : \A j \in hits : i <= j

\* /[a-zA-Z_][a-zA-Z0-9_]*/ at pos: the length of the match, 0 when there is none
IdentifierLength(str, pos) ==
    IF pos <= Len(str) /\ IsIdStart(CharAt(str, pos)) THEN RunLength(str, pos, IsIdChar) ELSE 0

NotLineEnd(c) == c \notin {"\n", "\r"}

\* The skipped groups: WhiteSpace, LineComment, BlockComment
SkippedLength(str, pos) ==
    IF IsSpace(CharAt(str, pos)) THEN RunLength(str, pos, IsSpace)
    ELSE IF StartsAt(str, pos, "//") THEN RunLength(str, pos, NotLineEnd)
    ELSE IF StartsAt(str, pos, "/*") /\ FindFrom(str, pos + 2, "*/") # 0
    THEN FindFrom(str, pos + 2, "*/") + 2 - pos
    ELSE 0

Fixed(type, images) ==
    [type |-> type, images |-> images, longer_alt |-> FALSE, notBeforeIdChar |-> FALSE]
\* A keyword token without longer_alt
Keyword_noLongerAlt(type, images) ==
    [type |-> type, images |-> images, longer_alt |-> FALSE, notBeforeIdChar |-> FALSE]

Keyword(type, images) ==
    [type |-> type, images |-> images, longer_alt |-> TRUE, notBeforeIdChar |-> FALSE]
Short(type, images) ==
    [type |-> type, images |-> images, longer_alt |-> FALSE, notBeforeIdChar |-> TRUE]

\* allTokens between the skipped groups and StringLiteral, in the order of the lexer
allTokens ==
    << Fixed("DoubleArrow", <<"<->">>),
       Fixed("UpstreamDownstreamArrow", <<"U->D", "D<-U">>),
       Fixed("DownstreamUpstreamArrow", <<"D->U", "U<-D">>),
       Fixed("Arrow", <<"->">>),
       Keyword("ContextMap", <<"ContextMap">>),
       Keyword("BoundedContext", <<"BoundedContext">>),
       Keyword("Aggregate", <<"Aggregate">>),
       Keyword("Entity", <<"Entity">>),
       Keyword("ValueObject", <<"ValueObject">>),
       Keyword("DomainEvent", <<"DomainEvent">>),
       Keyword("Command", <<"Command">>),
       Keyword("Service", <<"Service">>),
       Keyword("Module", <<"Module">>),
       Keyword("Partnership", <<"Partnership">>),
       Keyword("SharedKernel", <<"SharedKernel">>),
       Fixed("CustomerSupplier", <<"Customer-Supplier">>),
       Keyword("UpstreamKw", <<"Upstream", "upstream">>),
       Keyword("DownstreamKw", <<"Downstream", "downstream">>),
       Short("UpstreamShort", <<"U">>),
       Short("DownstreamShort", <<"D">>),
       Keyword("OHS", <<"OHS">>),
       Keyword("PL", <<"PL">>),
       Keyword("ACL", <<"ACL">>),
       Keyword("CF", <<"CF">>),
       Keyword("Contains", <<"contains">>),
       Keyword("Implements", <<"implements">>),
       Keyword("Type", <<"type">>),
       Keyword("State", <<"state">>),
       Keyword("DomainVisionStatement", <<"domainVisionStatement">>),
       Keyword("Responsibilities", <<"responsibilities">>),
       Keyword("ImplementationTechnology", <<"implementationTechnology">>),
       Keyword("KnowledgeLevel", <<"knowledgeLevel">>),
       Keyword("AggregateRoot", <<"aggregateRoot">>),
       Keyword("Def", <<"def">>),
       Keyword("Key", <<"key">>),
       Keyword("Nullable", <<"nullable">>),
       Keyword("ExposedAggregates", <<"exposedAggregates">>),
       Keyword("ListType", <<"List">>),
       Keyword("SetType", <<"Set">>),
       Keyword("AsIs", <<"AS_IS">>),
       Keyword("ToBe", <<"TO_BE">>),
       Keyword("Meta", <<"META">>),
       Keyword("Concrete", <<"CONCRETE">>),
       Fixed("LCurly", <<"{">>),
       Fixed("RCurly", <<"}">>),
       Fixed("LParen", <<"(">>),
       Fixed("RParen", <<")">>),
       Fixed("LSquare", <<"[">>),
       Fixed("RSquare", <<"]">>),
       Fixed("LAngle", <<"<">>),
       Fixed("RAngle", <<">">>),
       Fixed("Comma", <<",">>),
       Fixed("Colon", <<":">>),
       Fixed("Semicolon", <<";">>),
       Fixed("Equals", <<"=">>) >>

\* The alternative of a token type's pattern that matches at pos: <<>> or <<image>>
PatternMatch(tokenType, str, pos) ==
    LET hits == { k \in 1..Len(tokenType.images) :
                    /\ StartsAt(str, pos, tokenType.images[k])
                    /\ tokenType.notBeforeIdChar =>
                          ~(/\ pos + Len(tokenType.images[k]) <= Len(str)
                            /\ IsIdChar(CharAt(str, pos + Len(tokenType.images[k])))) }
    IN  IF hits = {} THEN <<>>
        ELSE << tokenType.images[CHOOSE k \in hits : \A j \in hits : k <= j] >>

Token(type, image) == [type |-> type, image |-> image]

\* The token types of allTokens whose pattern matches at pos, by their place in the order
MatchingTypes(str, pos) ==
    { k \in 1..Len(allTokens) : PatternMatch(allTokens[k], str, pos) # <<>> }

Least(indices) == CHOOSE i \in indices : \A j \in indices : i <= j

\* The token of a token type that matched with image; a longer identifier takes its place
MatchedToken(tokenType, image, identifierLength, str, pos) ==
    IF tokenType.longer_alt /\ identifierLength > Len(image)
    THEN << Token("Identifier", SubSeq(str, pos, pos + identifierLength - 1)) >>
    ELSE << Token(tokenType.type, image) >>

\* StringLiteral, then Identifier, the last two of allTokens
LiteralOrIdentifier(closing, identifierLength, str, pos) ==
    IF CharAt(str, pos) = "\"" /\ closing # 0
    THEN << Token("StringLiteral", SubSeq(str, pos, closing)) >>
    ELSE IF identifierLength > 0
    THEN << Token("Identifier", SubSeq(str, pos, pos + identifierLength - 1)) >>
    ELSE <<>>

FirstMatching(tokenType, str, pos) ==
    MatchedToken(tokenType, PatternMatch(tokenType, str, pos)[1], IdentifierLength(str, pos),
                 str, pos)

TokenAmong(matching, str, pos) ==
    IF matching # {} THEN FirstMatching(allTokens[Least(matching)], str, pos)
    ELSE LiteralOrIdentifier(FindFrom(str, pos + 1, "\""), IdentifierLength(str, pos), str, pos)

\* The token at pos: <<>> (no pattern matches: a lexing error) or <<token>>
NextToken(str, pos) == TokenAmong(MatchingTypes(str, pos), str, pos)

\* The state of the lexer after skipped text of length skipped, or else after token
Advance(lexed, skipped, token) ==
    IF skipped > 0 THEN [lexed EXCEPT !.pos = @ + skipped]
    ELSE IF token = <<>> THEN [lexed EXCEPT !.errors = TRUE]
    ELSE [lexed EXCEPT !.pos = @ + Len(token[1].image), !.tokens = Append(@, token[1])]

\* One round of the lexer's loop from the state lexed: skipped text is passed over, a
\* token is appended, or the unrecognised character is recorded.  At the end of the
\* input the state stays as it is
LexStep(str, lexed) ==
    IF lexed.pos > Len(str) \/ lexed.errors THEN lexed
    ELSE Advance(lexed, SkippedLength(str, lexed.pos), NextToken(str, lexed.pos))

\* n rounds of the loop, halved so that the evaluation stays shallow
RECURSIVE LexSteps(_, _, _)
LexSteps(str, lexed, n) ==
    IF n <= 1 THEN LexStep(str, lexed)
    ELSE LET half == LexSteps(str, lexed, n \div 2)
         IN  IF half.pos > Len(str) \/ half.errors THEN half
             ELSE LexSteps(str, half, n - n \div 2)

\* CMLLexer.tokenize: the tokens, and whether any character sequence was not recognised.
\* Every round but an erroneous one consumes a character, so Len(str) rounds reach the end
LexResult(lexed) == [tokens |-> lexed.tokens, errors |-> lexed.errors]

tokenize(str) ==
    LexResult(LexSteps(str, [pos |-> 1, tokens |-> <<>>, errors |-> FALSE], Len(str)))

-----------------------------------------------------------------------------
(* parser.ts, the grammar: each rule takes the tokens not yet consumed and *)
(* gives the CST node and the tokens left, or fails.  A MANY or OPTION is  *)
(* entered when the next token starts it; there is no error recovery       *)

Mismatch == [ok |-> FALSE, rest |-> <<>>, node |-> <<>>]
Parsed(node, rest) == [ok |-> TRUE, rest |-> rest, node |-> node]

\* The type of the k-th token ahead
LA(ts, k) == IF Len(ts) >= k THEN ts[k].type ELSE "EOF"

Drop(ts, n) == SubSeq(ts, n + 1, Len(ts))

\* The token types `types`, consumed in a row
Starts(ts, types) == \A k \in 1..Len(types) : LA(ts, k) = types[k]

\* 1 when the token at place `at` has the type (an OPTION that is taken), else 0
Taken(ts, at, type) == IF LA(ts, at) = type THEN 1 ELSE 0

\* X (Comma X)* over tokens of one type: the images, and the tokens left
RECURSIVE SeparatedBy(_, _, _)
SeparatedBy(ts, type, images) ==
    IF LA(ts, 1) # type THEN Mismatch
    ELSE IF LA(ts, 2) = "Comma" THEN SeparatedBy(Drop(ts, 2), type, Append(images, ts[1].image))
    ELSE Parsed(Append(images, ts[1].image), Drop(ts, 1))

\* The node that holds the images of a separated list
ImagesNode(list) ==
    IF list.ok THEN Parsed([images |-> list.node], list.rest) ELSE Mismatch

parameterDecl(ts) ==
    IF Starts(ts, <<"Identifier", "Identifier">>)
    THEN Parsed([Identifier |-> << ts[1].image, ts[2].image >>], Drop(ts, 2))
    ELSE Mismatch

\* parameterDecl (Comma parameterDecl)*
RECURSIVE ParameterList(_, _)
ParameterList(ts, nodes) ==
    IF ~parameterDecl(ts).ok THEN Mismatch
    ELSE IF LA(ts, 3) = "Comma"
    THEN ParameterList(Drop(ts, 3), Append(nodes, parameterDecl(ts).node))
    ELSE Parsed(Append(nodes, parameterDecl(ts).node), Drop(ts, 2))

\* The operation whose parameter list was parsed as params, up to the closing parenthesis
OperationNode(ts, params) ==
    IF params.ok /\ LA(params.rest, 1) = "RParen"
    THEN Parsed([Identifier |-> << ts[2].image, ts[3].image >>, parameterDecl |-> params.node],
                Drop(params.rest, 1))
    ELSE Mismatch

operationDecl(ts) ==
    IF ~Starts(ts, <<"Def", "Identifier", "Identifier", "LParen">>) THEN Mismatch
    ELSE OperationNode(ts, IF LA(ts, 5) = "Identifier" THEN ParameterList(Drop(ts, 4), <<>>)
                           ELSE Parsed(<<>>, Drop(ts, 4)))

attributeName(ts) ==
    IF LA(ts, 1) \in {"Identifier", "Type", "State", "Key", "Service", "Module"}
    THEN Parsed(ts[1], Drop(ts, 1))
    ELSE Mismatch

\* The attribute whose name is the token at place `at` (5 after a collection type, 2
\* after a simple one), with the modifiers that follow
AttributeNode(ts, at, key, nullable) ==
    Parsed([ListType |-> LA(ts, 1) = "ListType", SetType |-> LA(ts, 1) = "SetType",
            Identifier |-> ts[IF at = 5 THEN 3 ELSE 1].image,
            attributeName |-> attributeName(Drop(ts, at - 1)).node, Key |-> key = 1, Nullable |-> nullable = 1],
           Drop(ts, at + key + nullable + Taken(ts, at + key + nullable + 1, "Semicolon")))

\* attributeName, then (Key)? (Nullable)? (Semicolon)?
AttributeNamed(ts, at, key) ==
    IF attributeName(Drop(ts, at - 1)).ok
    THEN AttributeNode(ts, at, key, Taken(ts, at + key + 1, "Nullable"))
    ELSE Mismatch

attributeDecl(ts) ==
    IF LA(ts, 1) \in {"ListType", "SetType"}
    THEN IF Starts(Drop(ts, 1), <<"LAngle", "Identifier", "RAngle">>)
         THEN AttributeNamed(ts, 5, Taken(ts, 6, "Key"))
         ELSE Mismatch
    ELSE IF LA(ts, 1) = "Identifier" THEN AttributeNamed(ts, 2, Taken(ts, 3, "Key"))
    ELSE Mismatch

\* MANY(OR(...)): `starts` gives the rule each admitted first token enters; the nodes
\* are gathered by rule, as the CST does
RECURSIVE Many(_, _, _)
RECURSIVE Gathered(_, _, _, _)

NoChildren(starts) == [rule \in { starts[type] : type \in DOMAIN starts } |-> <<>>]

\* The closing brace after a body
Closed(body) ==
    IF body.ok /\ LA(body.rest, 1) = "RCurly" THEN Parsed(body.node, Drop(body.rest, 1))
    ELSE Mismatch

\* { MANY(OR(...)) }
Braced(ts, starts) ==
    IF LA(ts, 1) # "LCurly" THEN Mismatch
    ELSE Closed(Many(Drop(ts, 1), NoChildren(starts), starts))

\* The node of a declaration named by identifier, with the children of its body
Declared(identifier, body) ==
    IF body.ok THEN Parsed([Identifier |-> identifier, children |-> body.node], body.rest)
    ELSE Mismatch

\* keyword Identifier ( { MANY(OR(...)) } )?
ElementDecl(ts, keyword, starts) ==
    IF ~Starts(ts, << keyword, "Identifier" >>) THEN Mismatch
    ELSE Declared(ts[2].image, IF LA(ts, 3) = "LCurly" THEN Braced(Drop(ts, 2), starts)
                               ELSE Parsed(NoChildren(starts), Drop(ts, 2)))

AttributeStarts ==
    [type \in {"ListType", "SetType", "Identifier"} |-> "attributeDecl"]

OperationStarts == [type \in {"Def"} |-> "operationDecl"]

entityDecl(ts) ==
    ElementDecl(ts, "Entity",
                [type \in {"AggregateRoot", "ListType", "SetType", "Identifier", "Def"} |->
                    IF type = "AggregateRoot" THEN "aggregateRootDecl"
                    ELSE IF type = "Def" THEN "operationDecl" ELSE "attributeDecl"])

aggregateRootDecl(ts) ==
    IF LA(ts, 1) = "AggregateRoot" THEN Parsed([AggregateRoot |-> ts[1].image], Drop(ts, 1))
    ELSE Mismatch

valueObjectDecl(ts) == ElementDecl(ts, "ValueObject", AttributeStarts)

domainEventDecl(ts) == ElementDecl(ts, "DomainEvent", AttributeStarts)

commandDecl(ts) == ElementDecl(ts, "Command", AttributeStarts)

serviceDecl(ts) == ElementDecl(ts, "Service", OperationStarts)

responsibilitiesDecl(ts) ==
    IF Starts(ts, <<"Responsibilities", "Equals">>)
    THEN ImagesNode(SeparatedBy(Drop(ts, 2), "StringLiteral", <<>>))
    ELSE Mismatch

knowledgeLevelDecl(ts) ==
    IF Starts(ts, <<"KnowledgeLevel", "Equals">>) /\ LA(ts, 3) \in {"Meta", "Concrete"}
    THEN Parsed([Meta |-> LA(ts, 3) = "Meta", Concrete |-> LA(ts, 3) = "Concrete"], Drop(ts, 3))
    ELSE Mismatch

\* domainVisionStatementDecl and implementationTechnologyDecl: keyword = StringLiteral
StringDecl(ts, keyword) ==
    IF Starts(ts, << keyword, "Equals", "StringLiteral" >>)
    THEN Parsed([StringLiteral |-> ts[3].image], Drop(ts, 3))
    ELSE Mismatch

domainVisionStatementDecl(ts) == StringDecl(ts, "DomainVisionStatement")

implementationTechnologyDecl(ts) == StringDecl(ts, "ImplementationTechnology")

aggregateDecl(ts) ==
    IF ~Starts(ts, <<"Aggregate", "Identifier", "LCurly">>) THEN Mismatch
    ELSE Declared(ts[2].image,
                  Braced(Drop(ts, 2),
                         [Responsibilities |-> "responsibilitiesDecl",
                          KnowledgeLevel |-> "knowledgeLevelDecl",
                          Entity |-> "entityDecl", ValueObject |-> "valueObjectDecl",
                          DomainEvent |-> "domainEventDecl", Command |-> "commandDecl",
                          Service |-> "serviceDecl"]))

moduleDecl(ts) ==
    IF ~Starts(ts, <<"Module", "Identifier", "LCurly">>) THEN Mismatch
    ELSE Declared(ts[2].image, Braced(Drop(ts, 2), [Aggregate |-> "aggregateDecl"]))

\* BoundedContext Identifier (implements Identifier)? { ... }
boundedContextDecl(ts) ==
    IF ~Starts(ts, <<"BoundedContext", "Identifier">>) THEN Mismatch
    ELSE IF LA(ts, 3) = "Implements" /\ LA(ts, 4) # "Identifier" THEN Mismatch
    ELSE Declared(ts[2].image,
                  Braced(Drop(ts, 2 + 2 * Taken(ts, 3, "Implements")),
                         [DomainVisionStatement |-> "domainVisionStatementDecl",
                          Responsibilities |-> "responsibilitiesDecl",
                          ImplementationTechnology |-> "implementationTechnologyDecl",
                          KnowledgeLevel |-> "knowledgeLevelDecl",
                          Aggregate |-> "aggregateDecl", Module |-> "moduleDecl"]))

\* type (=)? Identifier
contextMapType(ts) ==
    IF LA(ts, 1) = "Type" /\ LA(ts, 2 + Taken(ts, 2, "Equals")) = "Identifier"
    THEN Parsed([Identifier |-> ts[2 + Taken(ts, 2, "Equals")].image],
                Drop(ts, 2 + Taken(ts, 2, "Equals")))
    ELSE Mismatch

\* state (=)? (AS_IS | TO_BE)
contextMapState(ts) ==
    IF LA(ts, 1) = "State" /\ LA(ts, 2 + Taken(ts, 2, "Equals")) \in {"AsIs", "ToBe"}
    THEN Parsed([AsIs |-> LA(ts, 2 + Taken(ts, 2, "Equals")) = "AsIs",
                 ToBe |-> LA(ts, 2 + Taken(ts, 2, "Equals")) = "ToBe"],
                Drop(ts, 2 + Taken(ts, 2, "Equals")))
    ELSE Mismatch

contextMapContains(ts) ==
    IF LA(ts, 1) # "Contains" THEN Mismatch
    ELSE ImagesNode(SeparatedBy(Drop(ts, 1), "Identifier", <<>>))

symmetricRelationship(ts) ==
    IF LA(ts, 1) = "Identifier" /\ LA(ts, 2) \in {"Partnership", "SharedKernel"}
                                /\ LA(ts, 3) = "Identifier"
    THEN Parsed([Identifier |-> << ts[1].image, ts[3].image >>,
                 SharedKernel |-> LA(ts, 2) = "SharedKernel"], Drop(ts, 3))
    ELSE Mismatch

\* (Comma (patterns))*: which of the patterns occur
RECURSIVE PatternList(_, _, _)
PatternList(ts, patterns, seen) ==
    IF LA(ts, 1) # "Comma" THEN Parsed(seen, ts)
    ELSE IF LA(ts, 2) \in patterns THEN PatternList(Drop(ts, 2), patterns, seen \cup {LA(ts, 2)})
    ELSE Mismatch

upstreamPatterns(ts) ==
    IF LA(ts, 1) \in {"UpstreamShort", "UpstreamKw"}
    THEN PatternList(Drop(ts, 1), {"OHS", "PL"}, {})
    ELSE Mismatch

downstreamPatterns(ts) ==
    IF LA(ts, 1) \in {"DownstreamShort", "DownstreamKw"}
    THEN PatternList(Drop(ts, 1), {"ACL", "CF"}, {})
    ELSE Mismatch

exposedAggregatesProperty(ts) ==
    IF Starts(ts, <<"ExposedAggregates", "Equals">>)
    THEN ImagesNode(SeparatedBy(Drop(ts, 2), "Identifier", <<>>))
    ELSE Mismatch

\* The node of a rule that is one subrule
Wrapped(rule, inner) ==
    IF inner.ok THEN Parsed([r \in {rule} |-> << inner.node >>], inner.rest) ELSE Mismatch

relationshipProperty(ts) == Wrapped("exposedAggregatesProperty", exposedAggregatesProperty(ts))

\* ( [ patterns ] )?, the patterns having been parsed from the second token on
OptionalPatterns(ts, patterns) ==
    IF LA(ts, 1) # "LSquare" THEN Parsed(<<>>, ts)
    ELSE IF patterns.ok /\ LA(patterns.rest, 1) = "RSquare"
    THEN Parsed(<< patterns.node >>, Drop(patterns.rest, 1))
    ELSE Mismatch

\* The relationship from ts[1] to the context after the patterns, with its properties
UpstreamDownstreamNode(ts, up, down, properties) ==
    IF properties.ok
    THEN Parsed([Identifier |-> << ts[1].image, down.rest[1].image >>,
                 upstreamPatterns |-> up.node, downstreamPatterns |-> down.node,
                 relationshipProperty |-> properties.node.relationshipProperty],
                properties.rest)
    ELSE Mismatch

\* Identifier ( { relationshipProperty* } )?
AfterDownstreamPatterns(ts, up, down) ==
    IF down.ok /\ LA(down.rest, 1) = "Identifier"
    THEN UpstreamDownstreamNode(ts, up, down,
             IF LA(down.rest, 2) = "LCurly"
             THEN Braced(Drop(down.rest, 1), [ExposedAggregates |-> "relationshipProperty"])
             ELSE Parsed([relationshipProperty |-> <<>>], Drop(down.rest, 1)))
    ELSE Mismatch

\* -> ( [ downstreamPatterns ] )?
AfterUpstreamPatterns(ts, up) ==
    IF up.ok /\ LA(up.rest, 1) = "Arrow"
    THEN AfterDownstreamPatterns(ts, up,
             OptionalPatterns(Drop(up.rest, 1), downstreamPatterns(Drop(up.rest, 2))))
    ELSE Mismatch

upstreamDownstreamRelationship(ts) ==
    IF LA(ts, 1) # "Identifier" THEN Mismatch
    ELSE AfterUpstreamPatterns(ts, OptionalPatterns(Drop(ts, 1), upstreamPatterns(Drop(ts, 2))))

\* The alternative is chosen on the two tokens ahead
relationshipDecl(ts) ==
    IF LA(ts, 1) = "Identifier" /\ LA(ts, 2) \in {"Partnership", "SharedKernel"}
    THEN Wrapped("symmetricRelationship", symmetricRelationship(ts))
    ELSE IF LA(ts, 1) = "Identifier" /\ LA(ts, 2) \in {"LSquare", "Arrow"}
    THEN Wrapped("upstreamDownstreamRelationship", upstreamDownstreamRelationship(ts))
    ELSE Mismatch

\* ContextMap (Identifier)? { ... }; the name is kept as <<>> or <<name>>
contextMapDecl(ts) ==
    IF LA(ts, 1) # "ContextMap" THEN Mismatch
    ELSE Declared(IF LA(ts, 2) = "Identifier" THEN << ts[2].image >> ELSE <<>>,
                  Braced(Drop(ts, 1 + Taken(ts, 2, "Identifier")),
                         [Type |-> "contextMapType", State |-> "contextMapState",
                          Contains |-> "contextMapContains",
                          Identifier |-> "relationshipDecl"]))

\* SUBRULE: the rule of that name
Subrule(rule, ts) ==
    CASE rule = "contextMapDecl" -> contextMapDecl(ts)
      [] rule = "boundedContextDecl" -> boundedContextDecl(ts)
      [] rule = "contextMapType" -> contextMapType(ts)
      [] rule = "contextMapState" -> contextMapState(ts)
      [] rule = "contextMapContains" -> contextMapContains(ts)
      [] rule = "relationshipDecl" -> relationshipDecl(ts)
      [] rule = "relationshipProperty" -> relationshipProperty(ts)
      [] rule = "domainVisionStatementDecl" -> domainVisionStatementDecl(ts)
      [] rule = "responsibilitiesDecl" -> responsibilitiesDecl(ts)
      [] rule = "implementationTechnologyDecl" -> implementationTechnologyDecl(ts)
      [] rule = "knowledgeLevelDecl" -> knowledgeLevelDecl(ts)
      [] rule = "aggregateDecl" -> aggregateDecl(ts)
      [] rule = "moduleDecl" -> moduleDecl(ts)
      [] rule = "entityDecl" -> entityDecl(ts)
      [] rule = "valueObjectDecl" -> valueObjectDecl(ts)
      [] rule = "domainEventDecl" -> domainEventDecl(ts)
      [] rule = "commandDecl" -> commandDecl(ts)
      [] rule = "serviceDecl" -> serviceDecl(ts)
      [] rule = "aggregateRootDecl" -> aggregateRootDecl(ts)
      [] rule = "attributeDecl" -> attributeDecl(ts)
      [] rule = "operationDecl" -> operationDecl(ts)

\* The iteration that parsed `node` by `rule` is gathered and the next one is tried
Gathered(node, rule, children, starts) ==
    IF node.ok THEN Many(node.rest, [children EXCEPT ![rule] = Append(@, node.node)], starts)
    ELSE Mismatch

Many(ts, children, starts) ==
    IF LA(ts, 1) \notin DOMAIN starts THEN Parsed(children, ts)
    ELSE Gathered(Subrule(starts[LA(ts, 1)], ts), starts[LA(ts, 1)], children, starts)

\* Input left over after the entry rule is an error
AtEnd(model) == IF model.ok /\ model.rest = <<>> THEN model ELSE Mismatch

TopLevelStarts == [ContextMap |-> "contextMapDecl", BoundedContext |-> "boundedContextDecl"]

\* The entry rule
cmlModel(ts) == AtEnd(Many(ts, NoChildren(TopLevelStarts), TopLevelStarts))

-----------------------------------------------------------------------------
(* parser.ts, the visitor: the typed model of a CST.  The model has the    *)
(* shape the tool layer builds; an absent flag is FALSE, and a             *)
(* relationship's id is its position                                       *)

\* str.replace(/^"|"$/g, '')
stripQuotes(str) ==
    LET unopened == IF startsWith(str, "\"") THEN Tail(str) ELSE str
    IN  IF endsWith(unopened, "\"") THEN SubSeq(unopened, 1, Len(unopened) - 1) ELSE unopened

StrippedAll(strings) == [i \in 1..Len(strings) |-> stripQuotes(strings[i])]

visitAttribute(cst) ==
    [name |-> cst.attributeName.image,
     type |-> IF cst.ListType THEN "List<" \o cst.Identifier \o ">"
              ELSE IF cst.SetType THEN "Set<" \o cst.Identifier \o ">"
              ELSE cst.Identifier,
     key |-> cst.Key, nullable |-> cst.Nullable]

visitOperation(cst) ==
    [returnType |-> cst.Identifier[1], name |-> cst.Identifier[2],
     parameters |-> [i \in 1..Len(cst.parameterDecl) |->
                        [type |-> cst.parameterDecl[i].Identifier[1],
                         name |-> cst.parameterDecl[i].Identifier[2]]]]

VisitedAttributes(children) ==
    [i \in 1..Len(children.attributeDecl) |-> visitAttribute(children.attributeDecl[i])]

VisitedOperations(children) ==
    [i \in 1..Len(children.operationDecl) |-> visitOperation(children.operationDecl[i])]

visitEntity(cst) ==
    [name |-> cst.Identifier, aggregateRoot |-> Len(cst.children.aggregateRootDecl) > 0,
     attributes |-> VisitedAttributes(cst.children),
     operations |-> VisitedOperations(cst.children)]

\* visitValueObject, visitDomainEvent and visitCommand build the same fields
VisitAttributed(cst) ==
    [name |-> cst.Identifier, attributes |-> VisitedAttributes(cst.children)]

visitValueObject(cst) == VisitAttributed(cst)

visitDomainEvent(cst) == VisitAttributed(cst)

visitCommand(cst) == VisitAttributed(cst)

visitService(cst) ==
    [name |-> cst.Identifier, operations |-> VisitedOperations(cst.children)]

\* The strings of the first responsibilitiesDecl
VisitedResponsibilities(children) ==
    IF Len(children.responsibilitiesDecl) > 0
    THEN StrippedAll(children.responsibilitiesDecl[1].images)
    ELSE <<>>

\* The level of the first knowledgeLevelDecl
VisitedKnowledgeLevel(children) ==
    IF Len(children.knowledgeLevelDecl) = 0 THEN <<>>
    ELSE IF children.knowledgeLevelDecl[1].Meta THEN << "META" >>
    ELSE << "CONCRETE" >>

\* The string of the first declaration of a string property
VisitedString(decls) ==
    IF Len(decls) > 0 THEN << stripQuotes(decls[1].StringLiteral) >> ELSE <<>>

\* agg.aggregateRoot = entity for each entity that is flagged: the last one stays
WithAggregateRoot(agg) ==
    LET roots == { i \in 1..Len(agg.entities) : agg.entities[i].aggregateRoot }
    IN  IF roots = {} THEN agg
        ELSE [agg EXCEPT !.aggregateRoot = CHOOSE i \in roots : \A j \in roots : j <= i]

VisitAggregateChildren(name, children) ==
    WithAggregateRoot(
        [name |-> name,
         responsibilities |-> VisitedResponsibilities(children),
         knowledgeLevel |-> VisitedKnowledgeLevel(children),
         entities |-> [i \in 1..Len(children.entityDecl) |->
                          visitEntity(children.entityDecl[i])],
         valueObjects |-> [i \in 1..Len(children.valueObjectDecl) |->
                              visitValueObject(children.valueObjectDecl[i])],
         domainEvents |-> [i \in 1..Len(children.domainEventDecl) |->
                              visitDomainEvent(children.domainEventDecl[i])],
         commands |-> [i \in 1..Len(children.commandDecl) |->
                          visitCommand(children.commandDecl[i])],
         services |-> [i \in 1..Len(children.serviceDecl) |->
                          visitService(children.serviceDecl[i])],
         aggregateRoot |-> 0])

visitAggregate(cst) == VisitAggregateChildren(cst.Identifier, cst.children)

VisitedAggregates(children) ==
    [i \in 1..Len(children.aggregateDecl) |-> visitAggregate(children.aggregateDecl[i])]

VisitBoundedContextChildren(name, children) ==
    [name |-> name,
     domainVisionStatement |-> VisitedString(children.domainVisionStatementDecl),
     responsibilities |-> VisitedResponsibilities(children),
     implementationTechnology |-> VisitedString(children.implementationTechnologyDecl),
     knowledgeLevel |-> VisitedKnowledgeLevel(children),
     aggregates |-> VisitedAggregates(children),
     modules |-> [i \in 1..Len(children.moduleDecl) |->
                     [name |-> children.moduleDecl[i].Identifier,
                      aggregates |-> VisitedAggregates(children.moduleDecl[i].children)]]]

visitBoundedContext(cst) == VisitBoundedContextChildren(cst.Identifier, cst.children)

\* The patterns of one side in the order the visitor pushes them
PushedPatterns(patterns, first, second) ==
    IF patterns = <<>> THEN <<>>
    ELSE (IF first \in patterns[1] THEN << first >> ELSE <<>>)
         \o (IF second \in patterns[1] THEN << second >> ELSE <<>>)

\* The fields of a relationship of either kind, empty
UnsetRelationship(id) ==
    [id |-> id, type |-> "", name |-> "",
     participant1 |-> "", participant2 |-> "", upstream |-> "", downstream |-> "",
     upstreamPatterns |-> <<>>, downstreamPatterns |-> <<>>, exposedAggregates |-> <<>>]

VisitSymmetric(sym, id) ==
    [UnsetRelationship(id) EXCEPT
        !.type = IF sym.SharedKernel THEN "SharedKernel" ELSE "Partnership",
        !.participant1 = sym.Identifier[1], !.participant2 = sym.Identifier[2]]

\* Each relationshipProperty assigns the exposed aggregates: the last one stays
VisitUpstreamDownstream(ud, id) ==
    [UnsetRelationship(id) EXCEPT
        !.type = "UpstreamDownstream",
        !.upstream = ud.Identifier[1], !.downstream = ud.Identifier[2],
        !.upstreamPatterns = PushedPatterns(ud.upstreamPatterns, "OHS", "PL"),
        !.downstreamPatterns = PushedPatterns(ud.downstreamPatterns, "ACL", "CF"),
        !.exposedAggregates =
            IF Len(ud.relationshipProperty) = 0 THEN <<>>
            ELSE ud.relationshipProperty[Len(ud.relationshipProperty)]
                     .exposedAggregatesProperty[1].images]

visitRelationship(cst, id) ==
    IF "symmetricRelationship" \in DOMAIN cst
    THEN VisitSymmetric(cst.symmetricRelationship[1], id)
    ELSE VisitUpstreamDownstream(cst.upstreamDownstreamRelationship[1], id)

VisitContextMapChildren(identifier, children) ==
    [name |-> IF identifier # <<>> THEN identifier[1] ELSE "MainContextMap",
     state |-> IF Len(children.contextMapState) = 0 THEN <<>>
               ELSE IF children.contextMapState[1].AsIs THEN << "AS_IS" >>
               ELSE << "TO_BE" >>,
     boundedContexts |-> Flatten([i \in 1..Len(children.contextMapContains) |->
                                     children.contextMapContains[i].images]),
     relationships |-> [i \in 1..Len(children.relationshipDecl) |->
                           visitRelationship(children.relationshipDecl[i], i)]]

visitContextMap(cst) == VisitContextMapChildren(cst.Identifier, cst.children)

visitCmlModel(cst) ==
    [name |-> "Untitled",
     contextMap |-> IF Len(cst.contextMapDecl) > 0
                    THEN << visitContextMap(cst.contextMapDecl[1]) >> ELSE <<>>,
     boundedContexts |-> [i \in 1..Len(cst.boundedContextDecl) |->
                             visitBoundedContext(cst.boundedContextDecl[i])]]

\* success, the model when there is one, and the errors list.  An error of the list is
\* kept by the stage that recorded it: the list has an entry when that stage recorded any
\* The result for the CST that the parser gave, or failed to give
ParseResult(cst) ==
    IF ~cst.ok THEN [success |-> FALSE, model |-> <<>>, errors |-> << "parser" >>]
    ELSE [success |-> TRUE, model |-> << visitCmlModel(cst.node) >>, errors |-> <<>>]

\* parseCML that hands the tokens to the parser whatever the lexer recorded
ParseTokens_ignoringLexerErrors(lexResult) == ParseResult(cmlModel(lexResult.tokens))

ParseTokens(lexResult) ==
    IF lexResult.errors THEN [success |-> FALSE, model |-> <<>>, errors |-> << "lexer" >>]
    ELSE ParseResult(cmlModel(lexResult.tokens))

parseCML(str) == ParseTokens(tokenize(str))

-----------------------------------------------------------------------------
(* Bounds and the parameters the tool calls are drawn from                 *)

MaxObjects == 3         \* aggregates plus domain objects in the current model
MaxBatch == 2           \* elements in one batchAddElements call
MaxRelationships == 1   \* relationships created in one run

ContextNames == {"Sales", "Billing"}
AggregateInputs == {"Orders", "Resource", "RESOURCE"}
AggregateNames == {"Orders", "Resource"}
ElementInputs == {"Order", "resource"}
ElementNames == {"Order", "resource", "OrderId"}

NoAttributes == <<>>
BadAttributes ==
    << [name |-> "data", type |-> "Map<String, Any>", key |-> FALSE, nullable |-> FALSE] >>
GoodAttributes ==
    << [name |-> "query", type |-> "String", key |-> TRUE, nullable |-> FALSE] >>

RECURSIVE Sum(_)
Sum(ns) == IF Len(ns) = 0 THEN 0 ELSE Head(ns) + Sum(Tail(ns))

ElementCount(agg) ==
    Len(agg.entities) + Len(agg.valueObjects) + Len(agg.domainEvents)
        + Len(agg.commands) + Len(agg.services)

\* Aggregates plus domain objects of a model
ObjectCount(cm) ==
    IF cm = <<>> THEN 0
    ELSE Sum([b \in 1..Len(cm[1].boundedContexts) |->
            LET aggs == AllAggregates(cm[1].boundedContexts[b])
            IN  Sum([a \in 1..Len(aggs) |-> 1 + ElementCount(aggs[a])])])

AggregateTargets == [contextName : ContextNames, aggregateName : AggregateNames]

ElementParams ==
    [contextName : ContextNames, aggregateName : {"Orders"}, name : ElementInputs,
     attributes : {NoAttributes, BadAttributes}]

EntityParams ==
    [contextName : ContextNames, aggregateName : {"Orders"}, name : ElementInputs,
     aggregateRoot : BOOLEAN, attributes : {NoAttributes, BadAttributes}]

ServiceParams ==
    [contextName : ContextNames, aggregateName : {"Orders"}, name : ElementInputs,
     operations : {<<>>}]

DeleteParams == [contextName : ContextNames, aggregateName : {"Orders"}, name : ElementNames]

CreateAggregateParams ==
    [contextName : ContextNames, name : AggregateInputs, responsibilities : {<<>>},
     knowledgeLevel : {<<>>}]

UpdateAggregateParams ==
    [contextName : ContextNames, aggregateName : {"Orders"}, newName : {"", "Resource"},
     responsibilities : {<<>>, << <<"Ordering">> >>}, knowledgeLevel : {<<>>}]

CreateBoundedContextParams ==
    [name : ContextNames, domainVisionStatement : {<<>>}, responsibilities : {<<>>},
     implementationTechnology : {<<>>}, knowledgeLevel : {<<>>}]

-----------------------------------------------------------------------------
(* The server: one request at a time; the handler of a tool runs to its    *)
(* end and the result is returned before the next request is read          *)

\* No TempFileContext is in use: nothing is tracked and no temporary path exists
NoTempFiles ==
    /\ files = <<>>
    /\ dirs = <<>>
    /\ disk = {}
    /\ createdPaths = {}
    /\ callback = "none"

\* No CLI command is being executed
NoExecution ==
    /\ proc = <<>>
    /\ timedOut = FALSE
    /\ timeoutId = "none"
    /\ killTimer = "none"
    /\ stdout = ""
    /\ stderr = ""
    /\ promise = <<>>

NoCall == [op |-> "none"]
NoResult == [success |-> TRUE, error |-> ""]

Init ==
    /\ NoTempFiles
    /\ NoExecution
    /\ currentModel = <<>>
    /\ uuids = 0
    /\ lastCall = NoCall
    /\ lastResult = NoResult
    /\ pc = "idle"
    /\ text = ""
    /\ parsed = <<>>
    /\ text2 = <<>>
    /\ parsed2 = <<>>
    /\ text3 = <<>>

\* A tool call with parameters p whose handler computed out
Call(op, p, out) ==
    /\ pc = "idle"
    /\ ObjectCount(out.model) <= MaxObjects
    /\ currentModel' = out.model
    /\ lastCall' = [op |-> op, params |-> p]
    /\ lastResult' = out.result
    /\ pc' = "responded"
    /\ UNCHANGED <<rtVars, envVars>>

\* The result is sent; the server waits for the next request
Return ==
    /\ pc = "responded"
    /\ pc' = "idle"
    /\ lastCall' = NoCall
    /\ lastResult' = NoResult
    /\ UNCHANGED <<currentModel, uuids>>
    /\ UNCHANGED <<rtVars, envVars>>

CreateModel ==
    \E p \in [name : {"Shop"}] :
        Call("createModel", p, createModel(currentModel, p)) /\ UNCHANGED uuids

CreateBoundedContext ==
    \E p \in CreateBoundedContextParams :
        Call("createBoundedContext", p, createBoundedContext(currentModel, p))
            /\ UNCHANGED uuids

CreateAggregate ==
    \E p \in CreateAggregateParams :
        Call("createAggregate", p, createAggregate(currentModel, p)) /\ UNCHANGED uuids

UpdateAggregate ==
    \E p \in UpdateAggregateParams :
        Call("updateAggregate", p, updateAggregate(currentModel, p)) /\ UNCHANGED uuids

DeleteAggregate ==
    \E p \in AggregateTargets :
        Call("deleteAggregate", p, deleteAggregate(currentModel, p)) /\ UNCHANGED uuids

AddEntity ==
    \E p \in EntityParams :
        Call("addEntity", p, addEntity(currentModel, p)) /\ UNCHANGED uuids

AddValueObject ==
    \E p \in ElementParams :
        Call("addValueObject", p, addValueObject(currentModel, p)) /\ UNCHANGED uuids

AddIdentifier ==
    \E p \in [contextName : ContextNames, aggregateName : {"Orders"}, name : ElementInputs] :
        Call("addIdentifier", p, addIdentifier(currentModel, p)) /\ UNCHANGED uuids

AddDomainEvent ==
    \E p \in ElementParams :
        Call("addDomainEvent", p, addDomainEvent(currentModel, p)) /\ UNCHANGED uuids

AddCommand ==
    \E p \in ElementParams :
        Call("addCommand", p, addCommand(currentModel, p)) /\ UNCHANGED uuids

AddService ==
    \E p \in ServiceParams :
        Call("addService", p, addService(currentModel, p)) /\ UNCHANGED uuids

DeleteEntity ==
    \E p \in DeleteParams :
        Call("deleteEntity", p, deleteEntity(currentModel, p)) /\ UNCHANGED uuids

DeleteValueObject ==
    \E p \in DeleteParams :
        Call("deleteValueObject", p, deleteValueObject(currentModel, p)) /\ UNCHANGED uuids

DeleteDomainEvent ==
    \E p \in DeleteParams :
        Call("deleteDomainEvent", p, deleteDomainEvent(currentModel, p)) /\ UNCHANGED uuids

DeleteCommand ==
    \E p \in DeleteParams :
        Call("deleteCommand", p, deleteCommand(currentModel, p)) /\ UNCHANGED uuids

DeleteService ==
    \E p \in DeleteParams :
        Call("deleteService", p, deleteService(currentModel, p)) /\ UNCHANGED uuids

\* The elements a batch is made of, tagged with the parameter list they go to
BatchElements ==
    { [kind |-> "identifier", name |-> "Order"],
      [kind |-> "valueObject", name |-> "OrderId", attributes |-> GoodAttributes],
      [kind |-> "entity", name |-> "Order", aggregateRoot |-> TRUE, attributes |-> NoAttributes],
      [kind |-> "entity", name |-> "resource", aggregateRoot |-> FALSE,
       attributes |-> NoAttributes],
      [kind |-> "domainEvent", name |-> "Placed", attributes |-> BadAttributes],
      [kind |-> "command", name |-> "Order", attributes |-> NoAttributes],
      [kind |-> "service", name |-> "resource", operations |-> <<>>],
      [kind |-> "service", name |-> "Pricing", operations |-> <<>>] }

\* The element as the parameter list holds it
Untag(e) ==
    IF e.kind = "identifier" THEN [name |-> e.name]
    ELSE IF e.kind = "entity"
    THEN [name |-> e.name, aggregateRoot |-> e.aggregateRoot, attributes |-> e.attributes]
    ELSE IF e.kind = "service" THEN [name |-> e.name, operations |-> e.operations]
    ELSE [name |-> e.name, attributes |-> e.attributes]

OfKind(els, kind) ==
    SelectIdx([i \in 1..Len(els) |-> Untag(els[i])],
              { i \in 1..Len(els) : els[i].kind = kind }, 1)

BatchParams ==
    { [contextName |-> c, aggregateName |-> "Orders", failFast |-> f,
       identifiers |-> OfKind(els, "identifier"), valueObjects |-> OfKind(els, "valueObject"),
       entities |-> OfKind(els, "entity"), domainEvents |-> OfKind(els, "domainEvent"),
       commands |-> OfKind(els, "command"), services |-> OfKind(els, "service")] :
      c \in ContextNames, f \in {<<>>, << FALSE >>},
      els \in UNION { [1..n -> BatchElements] : n \in 0..MaxBatch } }

BatchAddElements ==
    \E p \in BatchParams :
        Call("batchAddElements", p, batchAddElements(currentModel, p)) /\ UNCHANGED uuids

\* The tools that create, rename and delete aggregates and their domain objects one at a time
NextTools ==
    \/ CreateModel
    \/ CreateBoundedContext
    \/ CreateAggregate
    \/ UpdateAggregate
    \/ DeleteAggregate
    \/ AddEntity
    \/ AddValueObject
    \/ AddIdentifier
    \/ AddDomainEvent
    \/ AddCommand
    \/ AddService
    \/ DeleteEntity
    \/ DeleteValueObject
    \/ DeleteDomainEvent
    \/ DeleteCommand
    \/ DeleteService
    \/ Return

SpecTools == Init /\ [][NextTools]_vars


\* The batch tool, on the models the creation tools build
NextBatch ==
    \/ CreateModel
    \/ CreateBoundedContext
    \/ CreateAggregate
    \/ BatchAddElements
    \/ Return

SpecBatch == Init /\ [][NextBatch]_vars

RelationshipBase ==
    [type |-> "Partnership", name |-> "", participant1 |-> "", participant2 |-> "",
     upstream |-> "", downstream |-> "", upstreamPatterns |-> <<>>,
     downstreamPatterns |-> <<>>, exposedAggregates |-> <<>>]

CreateRelationshipParams ==
    { [RelationshipBase EXCEPT !.participant1 = "Sales", !.participant2 = "Billing"],
      [RelationshipBase EXCEPT !.type = "SharedKernel", !.participant1 = "Sales"],
      [RelationshipBase EXCEPT !.type = "UpstreamDownstream", !.upstream = "Sales",
                               !.downstream = "Billing", !.upstreamPatterns = <<"OHS">>,
                               !.exposedAggregates = <<"Orders">>],
      [RelationshipBase EXCEPT !.type = "UpstreamDownstream", !.upstream = "Sales",
                               !.downstream = "Sales"],
      [RelationshipBase EXCEPT !.type = "UpstreamDownstream", !.upstream = "Billing"],
      [RelationshipBase EXCEPT !.type = "Customer-Supplier"] }

UpdateRelationshipParams ==
    [id : 1..MaxRelationships, name : {<<>>}, upstreamPatterns : {<<>>},
     downstreamPatterns : {<<>>, << <<"ACL">> >>}, exposedAggregates : {<<>>, << <<>> >>}]

UpdateBoundedContextParams ==
    [name : ContextNames, newName : {"", "Billing"},
     domainVisionStatement : {<<>>, << "" >>}, responsibilities : {<<>>},
     implementationTechnology : {<<>>}, knowledgeLevel : {<<>>}]

UpdateBoundedContext ==
    \E p \in UpdateBoundedContextParams :
        Call("updateBoundedContext", p, updateBoundedContext(currentModel, p))
            /\ UNCHANGED uuids

DeleteBoundedContext ==
    \E p \in [name : ContextNames] :
        Call("deleteBoundedContext", p, deleteBoundedContext(currentModel, p))
            /\ UNCHANGED uuids

CreateContextMap ==
    \E p \in [name : {"", "ShopMap"}, state : {<<>>, << "AS_IS" >>}] :
        Call("createContextMap", p, createContextMap(currentModel, p)) /\ UNCHANGED uuids

\* uuidv4() is called for a relationship that passed the checks
CreateRelationship ==
    \E p \in CreateRelationshipParams :
        LET out == createRelationship(currentModel, p, uuids + 1)
        IN  /\ uuids < MaxRelationships
            /\ Call("createRelationship", p, out)
            /\ uuids' = IF out.result.success THEN uuids + 1 ELSE uuids

UpdateRelationship ==
    \E p \in UpdateRelationshipParams :
        Call("updateRelationship", p, updateRelationship(currentModel, p)) /\ UNCHANGED uuids

DeleteRelationship ==
    \E p \in [id : 1..MaxRelationships] :
        Call("deleteRelationship", p, deleteRelationship(currentModel, p)) /\ UNCHANGED uuids

\* The tools of the context map, on models with bounded contexts and aggregates
NextContextMap ==
    \/ CreateModel
    \/ CreateBoundedContext
    \/ UpdateBoundedContext
    \/ DeleteBoundedContext
    \/ CreateAggregate
    \/ CreateContextMap
    \/ CreateRelationship
    \/ UpdateRelationship
    \/ DeleteRelationship
    \/ Return

SpecContextMap == Init /\ [][NextContextMap]_vars

-----------------------------------------------------------------------------
(* Properties of the tool layer                                            *)

AddTools ==
    { "createAggregate", "addEntity", "addValueObject", "addIdentifier",
      "addDomainEvent", "addCommand", "addService" }

\* The aggregate a call addresses, in the model the call started from
TargetOf(cm, call) == findAggregate(cm, call.params.contextName, call.params.aggregateName)

\* C3: a createAggregate, addEntity, addValueObject, addIdentifier, addDomainEvent,
\* addCommand or addService call that returns success=false leaves the current model,
\* every aggregateRoot reference included, exactly as it was before the call.
C3_FailedAddLeavesModelUnchanged ==
    [][(lastCall'.op \in AddTools /\ ~lastResult'.success)
          => currentModel' = currentModel]_vars

\* C3 happens: addEntity with aggregateRoot=true was refused on an aggregate that
\* has entities and no root, and the aggregate still has no root
C3_Witness ==
    /\ lastCall.op = "addEntity"
    /\ lastCall.params.aggregateRoot
    /\ ~lastResult.success
    /\ TargetOf(currentModel, lastCall) # <<>>
    /\ LET aggregate == AggregateAt(currentModel[1], TargetOf(currentModel, lastCall)[1])
       IN  Len(aggregate.entities) > 0 /\ aggregate.aggregateRoot = 0

\* C6: the model the tools have built never makes validateModel report a diagnostic
\* of type 'error'.
C6_ModelsAlwaysValid ==
    currentModel # <<>> => validateModel(currentModel[1]).valid

\* C7: the names of all entities, value objects, domain events and commands of the
\* model are pairwise distinct, whatever the adds that succeeded.
C7_DomainObjectNamesDistinct ==
    currentModel # <<>> => Repeated(NameSeq(DomainObjectEntries(currentModel[1]))) = {}

\* The text after "Try: " in an error message: the suggested alternatives
RECURSIVE SuggestionOf(_)
SuggestionOf(error) ==
    IF Len(error) < 5 THEN ""
    ELSE IF SubSeq(error, 1, 5) = "Try: " THEN SubSeq(error, 6, Len(error))
    ELSE SuggestionOf(Tail(error))

IsResourceCall(call) ==
    /\ call.op \in {"createAggregate", "addEntity"}
    /\ toLowerCase(call.params.name) = "resource"

RejectedWithSuggestion(before, after, result) ==
    /\ ~result.success
    /\ after = before
    /\ SuggestionOf(result.error) # ""

\* C8 as stated: createAggregate and addEntity called with the name Resource in any
\* letter case return success=false, leave the model unchanged and return an error
\* that carries at least one suggested alternative name.
C8_ResourceAlwaysRejectedWithSuggestion ==
    [][IsResourceCall(lastCall')
          => RejectedWithSuggestion(currentModel, currentModel', lastResult')]_vars

\* The bounded context (createAggregate) or the aggregate (addEntity) the call names exists
TargetExists(cm, call) ==
    IF call.op = "createAggregate"
    THEN cm # <<>> /\ call.params.contextName \in Names(cm[1].boundedContexts)
    ELSE TargetOf(cm, call) # <<>>

\* C8 amended: createAggregate on an existing bounded context and addEntity on an
\* existing aggregate, called with the name Resource in any letter case, return
\* success=false, leave the model unchanged and return an error that carries at
\* least one suggested alternative name.
C8_ResourceRejectedOnExistingTarget ==
    [][(IsResourceCall(lastCall') /\ TargetExists(currentModel, lastCall'))
          => RejectedWithSuggestion(currentModel, currentModel', lastResult')]_vars

\* C8 happens: addEntity named resource was refused on an existing aggregate
C8_Witness ==
    /\ lastCall.op = "addEntity"
    /\ IsResourceCall(lastCall)
    /\ TargetExists(currentModel, lastCall)
    /\ ~lastResult.success
    /\ SuggestionOf(lastResult.error) = "MCPResource, DomainResource, ResourceDefinition"

IsReservedName(name) == toLowerCase(name) \in RESERVED_DOMAIN_OBJECT_NAMES

AggregateHasReservedName(agg) ==
    \/ IsReservedName(agg.name)
    \/ \E n \in Names(agg.entities) \cup Names(agg.valueObjects) \cup Names(agg.domainEvents)
                  \cup Names(agg.commands) \cup Names(agg.services) : IsReservedName(n)

\* C9: no aggregate, entity, value object, domain event, command or service of the
\* current model has a name that case-insensitively equals a reserved word.
C9_NoReservedNameInModel ==
    currentModel # <<>> =>
        \A b \in 1..Len(currentModel[1].boundedContexts) :
            LET aggs == AllAggregates(currentModel[1].boundedContexts[b])
            IN  \A a \in 1..Len(aggs) : ~AggregateHasReservedName(aggs[a])

-----------------------------------------------------------------------------
(* Properties of batchAddElements                                          *)

IsBatch(call) == call.op = "batchAddElements"

\* The elements of a batch in the order the tool handles them, tagged with their kind
BatchItems(p) ==
    [i \in 1..Len(p.identifiers) |-> [kind |-> "identifier", el |-> p.identifiers[i]]]
    \o [i \in 1..Len(p.valueObjects) |-> [kind |-> "valueObject", el |-> p.valueObjects[i]]]
    \o [i \in 1..Len(p.entities) |-> [kind |-> "entity", el |-> p.entities[i]]]
    \o [i \in 1..Len(p.domainEvents) |-> [kind |-> "domainEvent", el |-> p.domainEvents[i]]]
    \o [i \in 1..Len(p.commands) |-> [kind |-> "command", el |-> p.commands[i]]]
    \o [i \in 1..Len(p.services) |-> [kind |-> "service", el |-> p.services[i]]]

ListOfKind ==
    [identifier |-> "valueObjects", valueObject |-> "valueObjects", entity |-> "entities",
     domainEvent |-> "domainEvents", command |-> "commands", service |-> "services"]

ItemName(item) == BatchName(item.kind, item.el)

\* Every element of the batch is in the list of its kind of the target aggregate
BatchPresent(cm, call) ==
    /\ TargetOf(cm, call) # <<>>
    /\ LET aggregate == AggregateAt(cm[1], TargetOf(cm, call)[1])
           items == BatchItems(call.params)
       IN  \A i \in 1..Len(items) :
               ItemName(items[i]) \in Names(aggregate[ListOfKind[items[i].kind]])

\* C4: when batchAddElements returns success=false the whole model is unchanged and
\* every list of `created` is empty; when it returns success=true every element of
\* the batch is present in the target aggregate.
C4_BatchAllOrNothing ==
    [][IsBatch(lastCall') =>
          IF lastResult'.success
          THEN BatchPresent(currentModel', lastCall')
          ELSE currentModel' = currentModel /\ lastResult'.created = EmptyCreated]_vars

\* C4 happens: a batch that collects its errors was refused although some of its
\* elements passed every check
C4_Witness ==
    /\ IsBatch(lastCall)
    /\ ~lastResult.success
    /\ lastCall.params.failFast = << FALSE >>
    /\ TargetOf(currentModel, lastCall) # <<>>
    /\ Len(lastResult.errors) < Len(BatchItems(lastCall.params))

\* The checks the collect-all-errors mode is said to apply to an element of any kind:
\* reserved name, name repeated within the batch, name already in the aggregate (an
\* identifier that exists is returned, not refused), name used in another bounded
\* context, invalid attribute type
FailsACheck(cm, call, i) ==
    LET items == BatchItems(call.params)
        item == items[i]
        name == ItemName(item)
        aggregate == AggregateAt(cm[1], TargetOf(cm, call)[1])
    IN  \/ IsReservedName(name)
        \/ \E j \in 1..(i - 1) : ItemName(items[j]) = name
        \/ item.kind # "identifier" /\ name \in Names(aggregate[ListOfKind[item.kind]])
        \/ checkForDuplicateDomainObjectName(cm, name, call.params.contextName).isDuplicate
        \/ item.kind \notin {"identifier", "service"} /\ ~validateAttributes(item.el.attributes)

Reported(result, item) ==
    \E k \in 1..Len(result.errors) :
        /\ result.errors[k].elementType = item.kind
        /\ result.errors[k].name = ItemName(item)

\* C5: with failFast=false, batchAddElements on an existing aggregate reports an
\* error entry for every element of the batch that fails a check, services
\* included, and mutates nothing when an element fails.
C5_CollectsEveryFailingElement ==
    [][(/\ IsBatch(lastCall')
        /\ lastCall'.params.failFast = << FALSE >>
        /\ TargetOf(currentModel, lastCall') # <<>>)
          => \A i \in 1..Len(BatchItems(lastCall'.params)) :
                FailsACheck(currentModel, lastCall', i)
                    => /\ Reported(lastResult', BatchItems(lastCall'.params)[i])
                       /\ currentModel' = currentModel]_vars

-----------------------------------------------------------------------------
(* The parser and the writer applied in turn to a document: parse it,      *)
(* serialize the model, parse the serialized text, serialize again         *)

MaxAttributes == 2

\* Attribute declarations of an Entity body
AttributeLines ==
    { "String id key", "String query", "String type nullable", "List<String> tags",
      "Money Query;", "Int domainEvent" }

AttributeLists == UNION { [1..n -> AttributeLines] : n \in 0..MaxAttributes }

\* The lines of a body, each on a line of its own
RECURSIVE Body(_)
Body(lines) == IF lines = <<>> THEN "" ELSE "  " \o Head(lines) \o "\n" \o Body(Tail(lines))

\* One bounded context with one aggregate around an Entity
EntityDocuments ==
    { "BoundedContext Sales {\n Aggregate Orders {\n Entity Order {\n" \o root \o Body(lines)
          \o " }\n }\n}\n" :
        root \in {"", "  aggregateRoot\n"}, lines \in AttributeLists }

ContextMapTexts ==
    { "",
      "ContextMap {\n}\n",
      "ContextMap Shop {\n type = SYSTEM_LANDSCAPE\n state = AS_IS\n contains Sales, Billing\n"
          \o " Sales [U,OHS] -> [D,ACL] Billing {\n  exposedAggregates = Orders\n }\n}\n",
      "ContextMap Shop {\n contains Sales\n contains Billing\n Sales -> Billing\n"
          \o " Billing [Upstream,PL,OHS] -> [Downstream,CF] Sales\n}\n",
      "ContextMap Shop {\n state TO_BE\n Sales Partnership Billing\n}\n",
      "ContextMap {\n Sales SharedKernel Billing\n}\n",
      "ContextMap Shop {\n Sales [Partnership] Billing\n}\n",
      "ContextMap Shop {\n Sales <-> Billing\n}\n" }

PropertyTexts ==
    { "",
      " domainVisionStatement = \"Sells things\"\n",
      " domainVisionStatement = \"\"\n",
      " domainVisionStatement = \"C:\\orders\"\n",
      " responsibilities = \"Orders\", \"Quotes\"\n knowledgeLevel = CONCRETE\n"
          \o " implementationTechnology = \"Java\"\n" }

AggregateText ==
    " Aggregate Orders {\n  responsibilities = \"Ordering\"\n  knowledgeLevel = META\n"
        \o "  Entity Order\n  ValueObject Money {\n   Int amount\n  }\n  DomainEvent Placed\n"
        \o "  Command Place\n  Service Pricing {\n   def Money price(Order order, Int n)\n  }\n"
        \o " }\n"

AggregateTexts ==
    { "", " // none yet\n", AggregateText, " Module Ordering {\n" \o AggregateText \o " }\n" }

BoundedContextDocuments ==
    { "BoundedContext Sales {\n" \o properties \o aggregates \o "}\n" :
        properties \in PropertyTexts, aggregates \in AggregateTexts }

ContextMapDocuments ==
    { contextMap \o contexts :
        contextMap \in ContextMapTexts,
        contexts \in { "", "BoundedContext Sales\n",
                       "BoundedContext Sales {\n}\nBoundedContext Billing implements Money {\n}\n" } }

\* The ways a document declares an element that has no attributes and no operations:
\* not at all, by its name alone, or with an empty body
ElementForms(keyword, name) ==
    { "", "  " \o keyword \o " " \o name \o "\n", "  " \o keyword \o " " \o name \o " {\n  }\n" }

\* One aggregate whose elements are all empty
EmptyElementDocuments ==
    { "BoundedContext Sales {\n Aggregate Orders {\n" \o entity \o valueObject \o event
          \o command \o service \o " }\n}\n" :
        entity \in ElementForms("Entity", "Order"),
        valueObject \in ElementForms("ValueObject", "Money"),
        event \in { "", "  DomainEvent Placed {\n  }\n" },
        command \in { "", "  Command Place\n" },
        service \in ElementForms("Service", "Pricing") }

Documents ==
    EntityDocuments \cup BoundedContextDocuments \cup ContextMapDocuments
        \cup EmptyElementDocuments

InitRoundTrip ==
    /\ NoTempFiles
    /\ NoExecution
    /\ currentModel = <<>>
    /\ uuids = 0
    /\ lastCall = NoCall
    /\ lastResult = NoResult
    /\ pc = "idle"
    /\ text \in Documents
    /\ parsed = <<>>
    /\ text2 = <<>>
    /\ parsed2 = <<>>
    /\ text3 = <<>>

\* parseCML(D)
ParseDocument ==
    /\ parsed = <<>>
    /\ parsed' = << parseCML(text) >>
    /\ UNCHANGED << toolVars, text, text2, parsed2, text3, envVars >>

\* serializeCML(parseCML(D).model)
SerializeModel ==
    /\ parsed # <<>> /\ parsed[1].success
    /\ text2 = <<>>
    /\ text2' = << serializeCML(parsed[1].model[1]) >>
    /\ UNCHANGED << toolVars, text, parsed, parsed2, text3, envVars >>

\* parseCML(serializeCML(M))
ParseSerialized ==
    /\ text2 # <<>>
    /\ parsed2 = <<>>
    /\ parsed2' = << parseCML(text2[1]) >>
    /\ UNCHANGED << toolVars, text, parsed, text2, text3, envVars >>

\* serializeCML(parseCML(serializeCML(M)).model)
SerializeReparsed ==
    /\ parsed2 # <<>> /\ parsed2[1].success
    /\ text3 = <<>>
    /\ text3' = << serializeCML(parsed2[1].model[1]) >>
    /\ UNCHANGED << toolVars, text, parsed, text2, parsed2, envVars >>

NextRoundTrip == ParseDocument \/ SerializeModel \/ ParseSerialized \/ SerializeReparsed

SpecRoundTrip == InitRoundTrip /\ [][NextRoundTrip]_vars

-----------------------------------------------------------------------------
(* Properties of the round trip                                            *)

\* The model without the generated ids
SemanticFields(model) ==
    IF model.contextMap = <<>> THEN model
    ELSE [model EXCEPT !.contextMap[1].relationships =
              [i \in 1..Len(@) |-> [@[i] EXCEPT !.id = 0]]]

Accepted == parsed # <<>> /\ parsed[1].success

\* C1: for every document that parseCML accepts, the serialized model is accepted by
\* parseCML again and gives a model equal to the first in every semantic field
C1_RoundTripLaw ==
    (Accepted /\ parsed2 # <<>>)
        => /\ parsed2[1].success
           /\ SemanticFields(parsed2[1].model[1]) = SemanticFields(parsed[1].model[1])

\* C2: for every model that parseCML builds, parsing its serialization succeeds and
\* serializing the re-parsed model gives the same text character for character
C2_SerializationIsFixpoint ==
    (Accepted /\ parsed2 # <<>>)
        => /\ parsed2[1].success
           /\ text3 # <<>> => text3[1] = text2[1]

\* The names of the Entity attributes of a model, in document order
EntityAttributeNames(model) ==
    Flatten([b \in 1..Len(model.boundedContexts) |->
        LET aggregates == AllAggregates(model.boundedContexts[b])
        IN  Flatten([a \in 1..Len(aggregates) |->
                Flatten([e \in 1..Len(aggregates[a].entities) |->
                    [k \in 1..Len(aggregates[a].entities[e].attributes) |->
                        aggregates[a].entities[e].attributes[k].name]])])])

\* name matches a word of the writer's list whatever the case of either
MatchesReservedKeyword(name) ==
    \E word \in RESERVED_KEYWORDS : toLowerCase(word) = toLowerCase(name)

EscapedNames(model) ==
    { name \in Range(EntityAttributeNames(model)) : MatchesReservedKeyword(name) }

\* C10: an Entity attribute whose name matches a reserved keyword of the writer (such as
\* query) is written with a caret before it, the written text parses, and the parsed
\* attribute has the name without the caret
C10_EscapedAttributeNameRoundTrips ==
    (Accepted /\ text2 # <<>> /\ EscapedNames(parsed[1].model[1]) # {})
        => /\ \A name \in EscapedNames(parsed[1].model[1]) :
                  FindFrom(text2[1], 1, " ^" \o name) # 0
           /\ parsed2 # <<>>
                  => /\ parsed2[1].success
                     /\ EntityAttributeNames(parsed2[1].model[1])
                            = EntityAttributeNames(parsed[1].model[1])

-----------------------------------------------------------------------------
(* Parsing and validating documents: parseCML on a document, validateModel *)
(* on the model it built, and the round trip of that model                 *)

MaxEntities == 3
MaxContexts == 4

\* The reference-syntax example of the modelling guide, and the same without the marker
OrderDocument ==
    "BoundedContext Sales {\n Aggregate Orders {\n  Entity Order {\n   aggregateRoot\n"
        \o "   - OrderId orderId key\n   String status\n  }\n"
        \o "  ValueObject OrderId {\n   String value\n  }\n }\n}\n"

PlainOrderDocument ==
    "BoundedContext Sales {\n Aggregate Orders {\n  Entity Order {\n   aggregateRoot\n"
        \o "   OrderId orderId key\n   String status\n  }\n"
        \o "  ValueObject OrderId {\n   String value\n  }\n }\n}\n"

EntityNames == << "Order", "Line", "Customer", "Address", "Note" >>

\* The Entities of an aggregate, the i-th marked as root when flags[i]
RECURSIVE EntityTexts(_, _)
EntityTexts(flags, i) ==
    IF i > Len(flags) THEN ""
    ELSE "  Entity " \o EntityNames[i] \o " {\n"
             \o (IF flags[i] THEN "   aggregateRoot\n" ELSE "") \o "  }\n"
             \o EntityTexts(flags, i + 1)

RootDocument(flags) ==
    "BoundedContext Sales {\n Aggregate Orders {\n" \o EntityTexts(flags, 1) \o " }\n}\n"

RootFlags == UNION { [1..n -> BOOLEAN] : n \in 1..MaxEntities }

RootDocuments == { RootDocument(flags) : flags \in RootFlags }

\* What an aggregate declares besides its name
Declarations ==
    { "", "  ValueObject AgentId\n", "  Entity AgentId\n",
      "  ValueObject AgentId\n  DomainEvent Registered\n" }

\* Three aggregates in two bounded contexts, one of them in a module
DomainObjectDocuments ==
    { "BoundedContext Sales {\n Aggregate Orders {\n" \o orders \o " }\n"
          \o " Module Agents {\n  Aggregate Registry {\n" \o registry \o "  }\n }\n}\n"
          \o "BoundedContext Billing {\n Aggregate Invoices {\n" \o invoices \o " }\n}\n" :
        orders \in Declarations, registry \in Declarations, invoices \in Declarations }

RECURSIVE ContextTexts(_)
ContextTexts(names) ==
    IF names = <<>> THEN ""
    ELSE "BoundedContext " \o Head(names) \o " {\n Aggregate " \o Head(names) \o "Core {\n }\n}\n"
             \o ContextTexts(Tail(names))

\* Up to MaxContexts bounded contexts that share two names
SharedNameDocuments ==
    { ContextTexts(names) :
        names \in UNION { [1..n -> {"Sales", "Billing"}] : n \in 1..MaxContexts } }

ReferencedNames == { "Sales", "Billing", "Ghost" }

ContainsTexts ==
    { "", " contains Sales, Billing\n", " contains Sales, Ghost\n", " contains Ghost, Ghost\n" }

RelationshipTexts ==
    { "" } \cup
    { " " \o a \o kind \o b \o "\n" :
        a \in ReferencedNames, b \in ReferencedNames,
        kind \in { " Partnership ", " SharedKernel ", " -> " } }

\* A context map over the bounded contexts Sales and Billing
ReferenceDocuments ==
    { "ContextMap Shop {\n" \o contains \o relationship \o "}\n"
          \o ContextTexts(<< "Sales", "Billing" >>) :
        contains \in ContainsTexts, relationship \in RelationshipTexts }

DomainObjectKinds == { "Entity", "ValueObject", "DomainEvent", "Command" }

AttributeTypes == { "String", "Money", "List<String>", "Any", "void", "Runnable", "List<Any>" }

TypedDocuments ==
    { "BoundedContext Sales {\n Aggregate Orders {\n  " \o kind \o " Thing {\n   "
          \o type \o " data\n  }\n }\n}\n" :
        kind \in DomainObjectKinds, type \in AttributeTypes }

\* Documents that the lexer or the parser rejects, and the empty document
MalformedDocuments ==
    { "", "// nothing\n", "BoundedContext Sales {", "BoundedContext {\n}\n", "Aggregate Orders\n",
      "BoundedContext Sales {\n}\n}\n", "BoundedContext Sales {\n} $\n", "Bounded-Context Sales\n",
      "BoundedContext Sales {\n domainVisionStatement = \"open\n}\n",
      "ContextMap {\n}\nContextMap {\n}\n", "ContextMap Shop {\n Sales => Billing\n}\n" }

ValidationDocuments ==
    { OrderDocument, PlainOrderDocument } \cup RootDocuments \cup DomainObjectDocuments
        \cup SharedNameDocuments \cup ReferenceDocuments \cup TypedDocuments
        \cup MalformedDocuments

InitValidate ==
    /\ NoTempFiles
    /\ NoExecution
    /\ currentModel = <<>>
    /\ uuids = 0
    /\ lastCall = NoCall
    /\ lastResult = NoResult
    /\ pc = "idle"
    /\ text \in ValidationDocuments
    /\ parsed = <<>>
    /\ text2 = <<>>
    /\ parsed2 = <<>>
    /\ text3 = <<>>

\* validateModel(parseCML(D).model)
ValidateParsed ==
    /\ parsed # <<>> /\ parsed[1].success
    /\ lastResult = NoResult
    /\ lastResult' = validateModel(parsed[1].model[1])
    /\ UNCHANGED << currentModel, uuids, lastCall, pc, rtVars, envVars >>

NextValidate == ParseDocument \/ ValidateParsed \/ SerializeModel \/ ParseSerialized

SpecValidate == InitValidate /\ [][NextValidate]_vars

Validated == lastResult # NoResult

-----------------------------------------------------------------------------
(* Properties of parsing and validation                                    *)

\* The names and attribute counts of the Entities and ValueObjects of every aggregate
ElementShapes(model) ==
    Flatten([b \in 1..Len(model.boundedContexts) |->
        LET aggregates == AllAggregates(model.boundedContexts[b])
            Shapes(xs) == [i \in 1..Len(xs) |->
                              [name |-> xs[i].name, attributes |-> Len(xs[i].attributes)]]
        IN  Flatten([a \in 1..Len(aggregates) |->
                Shapes(aggregates[a].entities) \o Shapes(aggregates[a].valueObjects)])])

\* The entity that the aggregate's root reference points to is Order, with the key
\* attribute orderId of a type that refers to OrderId before a second attribute
RootIsOrder(agg) ==
    /\ agg.aggregateRoot # 0
    /\ LET root == agg.entities[agg.aggregateRoot]
       IN  /\ root.name = "Order"
           /\ Len(root.attributes) = 2
           /\ root.attributes[1].name = "orderId"
           /\ root.attributes[1].key
           /\ root.attributes[1].type \in { "- OrderId", "OrderId" }

\* C11: the document with Entity Order (aggregateRoot, `- OrderId orderId key`,
\* `String status`) and ValueObject OrderId is parsed with success; the aggregate's root
\* is Order with two attributes, the first the key orderId referring to OrderId; the
\* model validates; and its serialization parses to the same element names and
\* attribute counts
C11_ReferenceExampleParses ==
    (text = OrderDocument /\ parsed # <<>>)
        => /\ parsed[1].success
           /\ RootIsOrder(parsed[1].model[1].boundedContexts[1].aggregates[1])
           /\ Validated => lastResult.valid
           /\ parsed2 # <<>>
                  => /\ parsed2[1].success
                     /\ ElementShapes(parsed2[1].model[1]) = ElementShapes(parsed[1].model[1])

\* C12: when several Entities of an aggregate carry the aggregateRoot marker, parsing
\* succeeds, every marked Entity has its aggregateRoot flag, and the aggregate's root
\* reference is the first marked Entity in document order
C12_FirstMarkedEntityIsRoot ==
    \A flags \in RootFlags :
        (text = RootDocument(flags) /\ parsed # <<>> /\ \E i \in DOMAIN flags : flags[i])
            => /\ parsed[1].success
               /\ LET agg == parsed[1].model[1].boundedContexts[1].aggregates[1]
                  IN  /\ [i \in 1..Len(agg.entities) |-> agg.entities[i].aggregateRoot] = flags
                      /\ agg.aggregateRoot # 0
                      /\ \A i \in 1..(agg.aggregateRoot - 1) : ~flags[i]

\* The number of diagnostics of a type
DiagnosticCount(errors, type) ==
    Cardinality({ i \in 1..Len(errors) : errors[i].type = type })

ModelAggregates(model) ==
    Flatten([b \in 1..Len(model.boundedContexts) |-> AllAggregates(model.boundedContexts[b])])

RootCount(agg) == Cardinality({ i \in 1..Len(agg.entities) : agg.entities[i].aggregateRoot })

\* The aggregate with its first Entity, and no other, flagged as the root
WithOneRoot(agg) ==
    [agg EXCEPT !.entities = [i \in 1..Len(@) |-> [@[i] EXCEPT !.aggregateRoot = (i = 1)]]]

WithOneRootEach(aggregates) == [a \in 1..Len(aggregates) |-> WithOneRoot(aggregates[a])]

\* The model with the root flags of every aggregate put right
WithRegularRoots(model) ==
    [model EXCEPT !.boundedContexts = [b \in 1..Len(@) |->
        [@[b] EXCEPT !.aggregates = WithOneRootEach(@),
                     !.modules = [m \in 1..Len(@) |->
                                     [@[m] EXCEPT !.aggregates = WithOneRootEach(@)]]]]]

\* The aggregates that have Entities and not exactly one root among them
IrregularRoots(model) ==
    LET aggregates == ModelAggregates(model)
    IN  SelectIdx(aggregates,
                  { a \in 1..Len(aggregates) :
                      Len(aggregates[a].entities) > 0 /\ RootCount(aggregates[a]) # 1 }, 1)

\* The root flags of one aggregate are all that validateModel can object to
OnlyRootsIrregular(model) ==
    /\ Len(IrregularRoots(model)) = 1
    /\ validateModel(WithRegularRoots(model)).errors = <<>>

\* C13: when the only irregularity of a model is one aggregate with two Entities both
\* flagged aggregateRoot, validateModel returns exactly one diagnostic of type error;
\* when it is one aggregate with Entities none of which is flagged, validateModel
\* returns exactly one diagnostic of type warning and valid = true
C13_RootCardinalityDiagnostics ==
    (Validated /\ OnlyRootsIrregular(parsed[1].model[1]))
        => LET agg == IrregularRoots(parsed[1].model[1])[1]
           IN  /\ (Len(agg.entities) = 2 /\ RootCount(agg) = 2)
                      => DiagnosticCount(lastResult.errors, "error") = 1
               /\ RootCount(agg) = 0
                      => /\ DiagnosticCount(lastResult.errors, "warning") = 1
                         /\ lastResult.valid

C13_Witness ==
    /\ Validated /\ OnlyRootsIrregular(parsed[1].model[1])
    /\ RootCount(IrregularRoots(parsed[1].model[1])[1]) = 2
    /\ Len(IrregularRoots(parsed[1].model[1])[1].entities) = 2
    /\ DiagnosticCount(lastResult.errors, "error") = 1

C13_NoRootReached ==
    /\ Validated /\ OnlyRootsIrregular(parsed[1].model[1])
    /\ RootCount(IrregularRoots(parsed[1].model[1])[1]) = 0
    /\ DiagnosticCount(lastResult.errors, "warning") = 1

\* The distinct locations (context.aggregate) that declare a domain-object name
LocationsOfName(model, name) ==
    { entry.location : entry \in { e \in Range(DomainObjectEntries(model)) : e.name = name } }

\* The errors of a validation that are about the ambiguous name
AmbiguityErrors(errors, name) ==
    SelectIdx(errors,
              { i \in 1..Len(errors) :
                  /\ errors[i].type = "error"
                  /\ startsWith(errors[i].message,
                                "Ambiguous domain object name '" \o name \o "'") }, 1)

\* How many declarations give a domain object the name
DeclarationCount(model, name) ==
    Cardinality({ i \in 1..Len(DomainObjectEntries(model)) :
                    DomainObjectEntries(model)[i].name = name })

DomainObjectNames(model) == { entry.name : entry \in Range(DomainObjectEntries(model)) }

\* C14: validateModel gives exactly one error for every domain-object name declared in
\* more than one location of the bounded contexts and their modules, the message names
\* every such location, and the model is not valid; a name declared once gets none.
\* Two bounded contexts that each declare ValueObject AgentId are one such case
C14_OneErrorPerAmbiguousName ==
    Validated
        => \A name \in DomainObjectNames(parsed[1].model[1]) :
               LET locations == LocationsOfName(parsed[1].model[1], name)
                   about == AmbiguityErrors(lastResult.errors, name)
               IN  /\ Cardinality(locations) > 1
                          => /\ Len(about) = 1
                             /\ \A location \in locations :
                                    FindFrom(about[1].message, 1, location) # 0
                             /\ ~lastResult.valid
                   /\ DeclarationCount(parsed[1].model[1], name) = 1
                          => Len(about) = 0

\* ValueObject AgentId declared by an aggregate of Sales and by one of Billing
C14_Witness ==
    /\ Validated
    /\ LocationsOfName(parsed[1].model[1], "AgentId") = { "Sales.Orders", "Billing.Invoices" }
    /\ \A b \in 1..2 :
           "AgentId" \in Names(parsed[1].model[1].boundedContexts[b].aggregates[1].valueObjects)
    /\ Len(AmbiguityErrors(lastResult.errors, "AgentId")) = 1
    /\ ~lastResult.valid

\* The errors of a validation about a bounded-context name used again
DuplicateContextErrors(errors, name) ==
    SelectIdx(errors,
              { i \in 1..Len(errors) :
                  /\ errors[i].type = "error"
                  /\ errors[i].message = "Duplicate bounded context name: " \o name }, 1)

\* How many bounded contexts of the model have the name
ContextCount(model, name) ==
    Cardinality({ b \in 1..Len(model.boundedContexts) : model.boundedContexts[b].name = name })

\* C15: validateModel gives exactly one error for each bounded-context name that more
\* than one bounded context uses, whether two, three or four of them share it
C15_OneErrorPerSharedContextName ==
    Validated
        => \A name \in Names(parsed[1].model[1].boundedContexts) :
               ContextCount(parsed[1].model[1], name) > 1
                   => Len(DuplicateContextErrors(lastResult.errors, name)) = 1

\* The diagnostics of a validation with the message
DiagnosticsSaying(errors, message) ==
    SelectIdx(errors, { i \in 1..Len(errors) : errors[i].message = message }, 1)

\* The relationships of the model's context map, none when it has no map
ModelRelationships(model) ==
    IF model.contextMap = <<>> THEN <<>> ELSE model.contextMap[1].relationships

IsSymmetric(rel) == rel.type \in { "Partnership", "SharedKernel" }

\* A relationship of a bounded context of the model with itself
SelfRelationships(model) ==
    LET rels == ModelRelationships(model)
    IN  SelectIdx(rels,
                  { i \in 1..Len(rels) :
                      IF IsSymmetric(rels[i])
                      THEN /\ rels[i].participant1 = rels[i].participant2
                           /\ rels[i].participant1 \in Names(model.boundedContexts)
                      ELSE /\ rels[i].upstream = rels[i].downstream
                           /\ rels[i].upstream \in Names(model.boundedContexts) }, 1)

\* C16: validateModel reports a Partnership or SharedKernel relationship of a bounded
\* context with itself as a warning, which alone leaves valid = true, and an
\* UpstreamDownstream relationship whose upstream is its downstream as an error, with
\* valid = false
C16_SelfRelationshipSeverity ==
    Validated
        => \A j \in 1..Len(SelfRelationships(parsed[1].model[1])) :
               LET rel == SelfRelationships(parsed[1].model[1])[j]
               IN  IF IsSymmetric(rel)
                   THEN LET said == DiagnosticsSaying(lastResult.errors,
                                        "Symmetric relationship between same context: "
                                            \o rel.participant1)
                        IN  /\ Len(said) = 1
                            /\ said[1].type = "warning"
                            /\ Len(lastResult.errors) = 1 => lastResult.valid
                   ELSE LET said == DiagnosticsSaying(lastResult.errors,
                                        "Upstream-downstream relationship cannot be between "
                                            \o "same context: " \o rel.upstream)
                        IN  /\ Len(said) = 1
                            /\ said[1].type = "error"
                            /\ ~lastResult.valid

\* A Partnership of Sales with itself has been validated: one warning, valid = true
C16_Witness ==
    /\ Validated
    /\ Len(SelfRelationships(parsed[1].model[1])) = 1
    /\ SelfRelationships(parsed[1].model[1])[1].type = "Partnership"
    /\ Len(lastResult.errors) = 1
    /\ lastResult.errors[1].type = "warning"
    /\ lastResult.valid

\* An UpstreamDownstream relationship of Sales with itself has been validated
C16_UpstreamDownstreamReached ==
    /\ Validated
    /\ Len(SelfRelationships(parsed[1].model[1])) = 1
    /\ SelfRelationships(parsed[1].model[1])[1].type = "UpstreamDownstream"
    /\ ~lastResult.valid

\* The names a relationship gives for its ends, each with the error an unresolved one gets
RelationshipReferences(rel) ==
    IF IsSymmetric(rel)
    THEN << [name |-> rel.participant1,
             message |-> "Relationship references non-existent bounded context: "
                             \o rel.participant1],
            [name |-> rel.participant2,
             message |-> "Relationship references non-existent bounded context: "
                             \o rel.participant2] >>
    ELSE << [name |-> rel.upstream,
             message |-> "Relationship references non-existent upstream context: "
                             \o rel.upstream],
            [name |-> rel.downstream,
             message |-> "Relationship references non-existent downstream context: "
                             \o rel.downstream] >>

\* Every name the context map gives: the contains list, then the ends of the relationships
ContextMapReferences(contextMap) ==
    [i \in 1..Len(contextMap.boundedContexts) |->
        [name |-> contextMap.boundedContexts[i],
         message |-> "Context map references non-existent bounded context: "
                         \o contextMap.boundedContexts[i]]]
    \o Flatten([i \in 1..Len(contextMap.relationships) |->
                   RelationshipReferences(contextMap.relationships[i])])

\* The references of the model's context map that name no bounded context of the model
Unresolved(model) ==
    LET references == ContextMapReferences(model.contextMap[1])
    IN  SelectIdx(references,
                  { i \in 1..Len(references) :
                      references[i].name \notin Names(model.boundedContexts) }, 1)

\* C17: with a context map, validateModel gives one error for every name of the
\* contains list and every participant, upstream or downstream name that names no
\* bounded context of the model, none for a name that resolves, and valid = false when
\* some name is unresolved
C17_OneErrorPerUnresolvedName ==
    (Validated /\ parsed[1].model[1].contextMap # <<>>)
        => LET references == ContextMapReferences(parsed[1].model[1].contextMap[1])
               unresolved == Unresolved(parsed[1].model[1])
           IN  /\ \A i \in 1..Len(references) :
                      LET said == DiagnosticsSaying(lastResult.errors, references[i].message)
                      IN  /\ Len(said) = Len(DiagnosticsSaying(unresolved, references[i].message))
                          /\ \A k \in 1..Len(said) : said[k].type = "error"
               /\ Len(unresolved) > 0 => ~lastResult.valid

\* A contains list and a relationship that each name one bounded context that exists
\* and one that does not
C17_Witness ==
    /\ Validated /\ parsed[1].model[1].contextMap # <<>>
    /\ Len(ContextMapReferences(parsed[1].model[1].contextMap[1])) = 4
    /\ Len(Unresolved(parsed[1].model[1])) = 2
    /\ Len(parsed[1].model[1].contextMap[1].boundedContexts) = 2
    /\ parsed[1].model[1].contextMap[1].boundedContexts[1]
           \in Names(parsed[1].model[1].boundedContexts)
    /\ DiagnosticCount(lastResult.errors, "error") = 2
    /\ ~lastResult.valid

\* The type strings of the attributes of every Entity, ValueObject, DomainEvent and
\* Command of the model
ModelAttributeTypes(model) ==
    LET aggregates == ModelAggregates(model)
        TypesOf(xs) == UNION { { xs[i].attributes[k].type : k \in 1..Len(xs[i].attributes) } :
                               i \in 1..Len(xs) }
    IN  UNION { TypesOf(aggregates[a].entities) \cup TypesOf(aggregates[a].valueObjects)
                    \cup TypesOf(aggregates[a].domainEvents) \cup TypesOf(aggregates[a].commands) :
                a \in 1..Len(aggregates) }

\* C18: validateModel returns an error diagnostic, and valid = false, whenever some
\* attribute of an Entity, ValueObject, DomainEvent or Command of the model has a type
\* that validateAttributeType rejects
C18_ValidationChecksAttributeTypes ==
    (Validated /\ \E type \in ModelAttributeTypes(parsed[1].model[1]) :
                      ~validateAttributeType(type))
        => /\ ~lastResult.valid
           /\ DiagnosticCount(lastResult.errors, "error") > 0

-----------------------------------------------------------------------------
(* validateAttributeType applied to type strings                           *)

CollectionKeywords == { "List", "Set" }

\* Element types that are themselves generic
GenericElementTypes ==
    { "Set<String>", "List<String>", "List<Set<String>>", "Map<String, Any>", "Dictionary<K, V>",
      "Function<A>", "Page<Order>", " Set <Order> ", "Tuple<A, B>" }

PlainElementTypes ==
    { "String", "CustomerId", "BigDecimal", "Any", "void", "order_id", "9lives", "Order Id",
      "- CustomerId", " UUID ", "" }

\* List and Set types over the element types, with and without a space before the bracket
CollectionsOver(elementTypes) ==
    { keyword \o space \o "<" \o element \o ">" :
        keyword \in CollectionKeywords, space \in { "", " " }, element \in elementTypes }

\* A List or Set whose inner type is itself generic
NestedCollectionTypes == CollectionsOver(GenericElementTypes)

OtherTypes ==
    { "Map<String, Any>", "Map <K, V>", "Dictionary<String, Int>", "Tuple", "Tuple<A, B>",
      "Function<A>", "Callback", "Callbacks", "Runnable", "dynamic", "any",
      "- CustomerId", "-CustomerId", "- Customer Id", "-  OrderId ", "- 9lives", "- ",
      " BigDecimal ", "Listing", "List", "List<>", "Lists<String>", "Set<String>>", "Order-Id" }

TypeStrings ==
    PlainElementTypes \cup GenericElementTypes \cup CollectionsOver(PlainElementTypes)
        \cup NestedCollectionTypes \cup OtherTypes

NotValidated == [valid |-> FALSE, type |-> <<>>]

InitAttributeType ==
    /\ NoTempFiles
    /\ NoExecution
    /\ currentModel = <<>>
    /\ uuids = 0
    /\ lastCall = NoCall
    /\ lastResult = NotValidated
    /\ pc = "idle"
    /\ text \in TypeStrings
    /\ parsed = <<>>
    /\ text2 = <<>>
    /\ parsed2 = <<>>
    /\ text3 = <<>>

\* validateAttributeType(type)
ValidateAttributeType ==
    /\ lastResult = NotValidated
    /\ lastResult' = [valid |-> validateAttributeType(text), type |-> << text >>]
    /\ UNCHANGED << currentModel, uuids, lastCall, pc, rtVars, envVars >>

NextAttributeType == ValidateAttributeType

SpecAttributeType == InitAttributeType /\ [][NextAttributeType]_vars

TypeValidated == lastResult # NotValidated

\* C19: validateAttributeType rejects Map<String, Any>, List<Set<String>> and every List
\* or Set whose inner type is itself generic, and accepts List<String>, - CustomerId and
\* BigDecimal
C19_TypeShapes ==
    TypeValidated
        => /\ text \in { "Map<String, Any>", "List<Set<String>>" } \cup NestedCollectionTypes
                  => ~lastResult.valid
           /\ text \in { "List<String>", "- CustomerId", "BigDecimal" } => lastResult.valid

C19_Witness ==
    /\ TypeValidated
    /\ text = "List<Set<String>>"
    /\ ~lastResult.valid

C19_AcceptedReached ==
    /\ TypeValidated
    /\ text = "- CustomerId"
    /\ lastResult.valid

-----------------------------------------------------------------------------
(* The result of parseCML                                                  *)

\* The lexer or the parser records an error for the text
RecordsError(str) == tokenize(str).errors \/ ~cmlModel(tokenize(str).tokens).ok

\* C20: parseCML returns a result for every input; when lexing or parsing records an
\* error the result has success = false, a non-empty errors list and no model; when
\* success = true the result has a model and an empty errors list
C20_ParseResultShape ==
    parsed # <<>>
        => /\ parsed[1].success \in BOOLEAN
           /\ RecordsError(text)
                  => /\ ~parsed[1].success
                     /\ parsed[1].errors # <<>>
                     /\ parsed[1].model = <<>>
           /\ parsed[1].success
                  => /\ parsed[1].model # <<>>
                     /\ parsed[1].errors = <<>>

\* A document with a character that the lexer does not know has been parsed
C20_Witness ==
    /\ parsed # <<>>
    /\ tokenize(text).errors
    /\ ~parsed[1].success
    /\ parsed[1].errors # <<>>
    /\ parsed[1].model = <<>>

\* A document that the parser cannot complete has been parsed, and so has one it can
C20_ParserErrorReached ==
    /\ parsed # <<>>
    /\ ~tokenize(text).errors
    /\ ~parsed[1].success

C20_SuccessReached == parsed # <<>> /\ parsed[1].success /\ parsed[1].errors = <<>>

-----------------------------------------------------------------------------
(* Elements without attributes and operations in the round trip            *)

\* The declarations (keyword, name) of the elements of the model that have no
\* attributes, no operations and, for an Entity, no aggregateRoot flag
EmptyElements(model) ==
    LET aggregates == ModelAggregates(model)
        DeclaredEmpty(keyword, xs, Empty(_)) ==
            SelectIdx([i \in 1..Len(xs) |-> [keyword |-> keyword, name |-> xs[i].name]],
                      { i \in 1..Len(xs) : Empty(xs[i]) }, 1)
        NoAttributesIn(x) == Len(x.attributes) = 0
        NoOperationsIn(x) == Len(x.operations) = 0
        Bare(x) == Len(x.attributes) = 0 /\ Len(x.operations) = 0 /\ ~x.aggregateRoot
    IN  Flatten([a \in 1..Len(aggregates) |->
            DeclaredEmpty("Entity", aggregates[a].entities, Bare)
                \o DeclaredEmpty("ValueObject", aggregates[a].valueObjects, NoAttributesIn)
                \o DeclaredEmpty("DomainEvent", aggregates[a].domainEvents, NoAttributesIn)
                \o DeclaredEmpty("Command", aggregates[a].commands, NoAttributesIn)
                \o DeclaredEmpty("Service", aggregates[a].services, NoOperationsIn)])

\* The text has the declaration as a line that ends after the name, and not with a brace
NameOnlyLine(str, declaration) ==
    /\ FindFrom(str, 1, "\t" \o declaration.keyword \o " " \o declaration.name \o "\n") # 0
    /\ FindFrom(str, 1, declaration.keyword \o " " \o declaration.name \o " {") = 0

\* C21: serializeCML writes an Entity without attributes, operations and aggregateRoot
\* flag, a ValueObject, DomainEvent or Command without attributes and a Service without
\* operations as a line with the name only and no braces; parsing that text gives the
\* same elements, empty again, and serializing once more gives the same text, so that
\* no cycle adds braces
C21_EmptyElementsStayNameOnly ==
    (Accepted /\ text2 # <<>>)
        => /\ \A i \in 1..Len(EmptyElements(parsed[1].model[1])) :
                  NameOnlyLine(text2[1], EmptyElements(parsed[1].model[1])[i])
           /\ (parsed2 # <<>> /\ text \in EmptyElementDocuments) => parsed2[1].success
           /\ (parsed2 # <<>> /\ parsed2[1].success)
                  => EmptyElements(parsed2[1].model[1]) = EmptyElements(parsed[1].model[1])
           /\ (text3 # <<>> /\ text \in EmptyElementDocuments) => text3[1] = text2[1]

\* The five kinds of element, each empty, have gone through two cycles
C21_Witness ==
    /\ Accepted /\ text3 # <<>>
    /\ { EmptyElements(parsed[1].model[1])[i].keyword :
           i \in 1..Len(EmptyElements(parsed[1].model[1])) }
           = { "Entity", "ValueObject", "DomainEvent", "Command", "Service" }
    /\ EmptyElements(parsed2[1].model[1]) = EmptyElements(parsed[1].model[1])
    /\ text3[1] = text2[1]
    /\ FindFrom(text3[1], 1, "Entity Order\n") # 0

-----------------------------------------------------------------------------
(* sanitizeIdentifier applied to raw names                                 *)

MaxNameLength == 3

NameCharacters == { "a", "Z", "7", "_", " ", "-", "." }

RECURSIVE Strings(_)
\* The strings of n characters
Strings(n) ==
    IF n = 0 THEN { "" }
    ELSE { c \o rest : c \in NameCharacters, rest \in Strings(n - 1) }

RawNames == UNION { Strings(n) : n \in 0..MaxNameLength }

NotSanitized == [sanitized |-> <<>>]

InitSanitize ==
    /\ NoTempFiles
    /\ NoExecution
    /\ currentModel = <<>>
    /\ uuids = 0
    /\ lastCall = NoCall
    /\ lastResult = NotSanitized
    /\ pc = "idle"
    /\ text \in RawNames
    /\ parsed = <<>>
    /\ text2 = <<>>
    /\ parsed2 = <<>>
    /\ text3 = <<>>

\* sanitizeIdentifier(rawName)
SanitizeIdentifier ==
    /\ lastResult = NotSanitized
    /\ lastResult' = [sanitized |-> << sanitizeIdentifier(text) >>]
    /\ UNCHANGED << currentModel, uuids, lastCall, pc, rtVars, envVars >>

NextSanitize == SanitizeIdentifier

SpecSanitize == InitSanitize /\ [][NextSanitize]_vars

Sanitized == lastResult # NotSanitized

\* The string without the characters that are no letter, digit or underscore
RECURSIVE Stripped(_)
Stripped(s) ==
    IF s = "" THEN ""
    ELSE (IF IsIdChar(Head(s)) THEN Head(s) ELSE "") \o Stripped(Tail(s))

\* The string after an underscore when a digit starts it
DigitPrefixed(s) == IF s # "" /\ Head(s) \in DigitChars THEN "_" \o s ELSE s

\* C22 as stated: sanitizeIdentifier(rawName) is rawName with every character outside
\* letters, digits and underscore removed, after `_` when the remaining text starts with
\* a digit
C22_SanitizeStrips ==
    Sanitized => lastResult.sanitized[1] = DigitPrefixed(Stripped(text))

\* The result has the characters of the raw name from position from on, each character
\* outside letters, digits and underscore as an underscore
SameButInvalid(result, from) ==
    /\ Len(result) = Len(text) + from
    /\ \A i \in 1..Len(text) :
           CharAt(result, i + from) = (IF IsIdChar(CharAt(text, i)) THEN CharAt(text, i) ELSE "_")

\* C22: sanitizeIdentifier(rawName) is rawName with every character outside letters,
\* digits and underscore replaced by `_`, after `_` when that text starts with a digit,
\* and `_unnamed` when rawName is empty
C22_SanitizeReplaces ==
    Sanitized
        => IF text = "" THEN lastResult.sanitized[1] = "_unnamed"
           ELSE IF CharAt(text, 1) \in DigitChars
           THEN /\ CharAt(lastResult.sanitized[1], 1) = "_"
                /\ SameButInvalid(lastResult.sanitized[1], 1)
           ELSE SameButInvalid(lastResult.sanitized[1], 0)

\* A raw name that starts with a digit and holds a space has been sanitized
C22_Witness ==
    /\ Sanitized
    /\ text = "7 a"
    /\ lastResult.sanitized[1] = "_7_a"

-----------------------------------------------------------------------------
(* Identifiers that begin with a keyword                                   *)

\* The images of the keyword tokens: the tokens of allTokens with a pattern that an
\* identifier can begin with
KeywordImages ==
    { image \in UNION { Range(allTokens[i].images) : i \in 1..Len(allTokens) } :
        isValidIdentifier(image) }

IdentifierSuffixes == { "NowPlatform", "s", "_", "2" }

\* The identifiers that have a keyword as a proper prefix and are no keyword themselves
KeywordPrefixedNames ==
    { keyword \o suffix : keyword \in KeywordImages, suffix \in IdentifierSuffixes }
        \ KeywordImages

NamedContextDocument(name) == "BoundedContext " \o name \o " { }"

InitKeywordPrefix ==
    /\ NoTempFiles
    /\ NoExecution
    /\ currentModel = <<>>
    /\ uuids = 0
    /\ lastCall = NoCall
    /\ lastResult = NoResult
    /\ pc = "idle"
    /\ text \in { NamedContextDocument(name) : name \in KeywordPrefixedNames }
    /\ parsed = <<>>
    /\ text2 = <<>>
    /\ parsed2 = <<>>
    /\ text3 = <<>>

NextKeywordPrefix == ParseDocument

SpecKeywordPrefix == InitKeywordPrefix /\ [][NextKeywordPrefix]_vars

\* C23: an identifier that begins with a keyword is one Identifier token:
\* parseCML("BoundedContext ServiceNowPlatform { }") succeeds with the bounded context
\* named ServiceNowPlatform, and so it is for every keyword and every identifier that has
\* the keyword as a proper prefix
C23_KeywordPrefixIsIdentifier ==
    \A name \in KeywordPrefixedNames :
        (text = NamedContextDocument(name) /\ parsed # <<>>)
            => /\ tokenize(text).tokens[2] = [type |-> "Identifier", image |-> name]
               /\ Len(tokenize(text).tokens) = 4
               /\ parsed[1].success
               /\ NameSeq(parsed[1].model[1].boundedContexts) = << name >>

C23_Witness ==
    /\ text = "BoundedContext ServiceNowPlatform { }"
    /\ parsed # <<>>
    /\ parsed[1].success
    /\ parsed[1].model[1].boundedContexts[1].name = "ServiceNowPlatform"

(***************************************************************************)
(* Temporary files: TempFileContext and withTempFiles                      *)
(*                                                                         *)
(* A path is a record: a directory `session-<dir>` has file = 0, a file    *)
(* `<prefix>-<file>.<extension>` lies in the directory of its dir field.   *)
(* Directory 0 is a directory that exists before the context is made (the  *)
(* caller's own directory, passed as the explicit directory argument).     *)
(***************************************************************************)
MaxPaths == 4   \* paths created through one context

Directory(n) == [dir |-> n, file |-> 0, extension |-> ""]
FilePath(dir, n, extension) == [dir |-> dir.dir, file |-> n, extension |-> extension]
IsDirectory(path) == path.file = 0
CallerDirectory == Directory(0)

\* randomUUID(): a value no path created so far carries
randomUUID(made) == Cardinality(made) + 1

\* createTempDir(): a new session directory on the disk d
createTempDir(d, made) ==
    LET uniqueDir == Directory(randomUUID(made))
    IN  [disk |-> d \cup {uniqueDir}, path |-> uniqueDir, made |-> made \cup {uniqueDir}]

\* createTempFile(content, extension, dir?): `dir || await createTempDir()`, then the
\* file is written into that directory
createTempFile(d, made, extension, dir) ==
    LET target == IF dir = <<>> THEN createTempDir(d, made)
                  ELSE [disk |-> d, path |-> dir[1], made |-> made]
        filePath == FilePath(target.path, randomUUID(target.made), extension)
    IN  [disk |-> target.disk \cup {filePath}, path |-> filePath,
         made |-> target.made \cup {filePath}]

\* createTempCMLFile(content, dir?)
createTempCMLFile(d, made, dir) == createTempFile(d, made, "cml", dir)

\* cleanupTemp(path, recursive): rm(path, {recursive, force: true}), errors ignored.
\* Without recursive a directory is not removed (rm fails, the error is swallowed).
cleanupTemp(d, path, recursive) ==
    IF IsDirectory(path)
    THEN IF recursive THEN {q \in d : q.dir # path.dir} ELSE d
    ELSE d \ {path}

RECURSIVE cleanupAll(_, _, _)
cleanupAll(d, paths, recursive) ==
    IF paths = <<>> THEN d
    ELSE cleanupAll(cleanupTemp(d, Head(paths), recursive), Tail(paths), recursive)

\* The directories an explicit directory argument may name
ExistingDirectories == {q \in disk : IsDirectory(q)}
DirectoryArguments == {<<>>} \cup {<<q>> : q \in ExistingDirectories}
Extensions == {"json"}

\* withTempFiles(fn): a new context is handed to the callback
InitTempFiles ==
    /\ currentModel = <<>>
    /\ uuids = 0
    /\ lastCall = NoCall
    /\ lastResult = NoResult
    /\ pc = "idle"
    /\ text = ""
    /\ parsed = <<>>
    /\ text2 = <<>>
    /\ parsed2 = <<>>
    /\ text3 = <<>>
    /\ NoExecution
    /\ files = <<>>
    /\ dirs = <<>>
    /\ disk = {CallerDirectory}
    /\ createdPaths = {}
    /\ callback = "running"

\* The context stays as it is apart from the named changes
Tracked(newFiles, newDirs, out) ==
    /\ callback = "running"
    /\ Cardinality(out.made) <= MaxPaths
    /\ files' = newFiles
    /\ dirs' = newDirs
    /\ disk' = out.disk
    /\ createdPaths' = out.made
    /\ UNCHANGED << callback, toolVars, rtVars, execVars >>

\* context.createDir()
createDir ==
    LET out == createTempDir(disk, createdPaths)
    IN  Tracked(files, Append(dirs, out.path), out)

\* context.createCMLFile(content, dir?)
createCMLFile ==
    \E dir \in DirectoryArguments :
        LET out == createTempCMLFile(disk, createdPaths, dir)
        IN  Tracked(Append(files, out.path), dirs, out)

\* context.createFile(content, extension, dir?)
createFile ==
    \E dir \in DirectoryArguments, extension \in Extensions :
        LET out == createTempFile(disk, createdPaths, extension, dir)
        IN  Tracked(Append(files, out.path), dirs, out)

\* The callback of withTempFiles returns
CallbackReturns ==
    /\ callback = "running"
    /\ callback' = "returned"
    /\ UNCHANGED << files, dirs, disk, createdPaths, toolVars, rtVars, execVars >>

\* The callback of withTempFiles throws
CallbackThrows ==
    /\ callback = "running"
    /\ callback' = "threw"
    /\ UNCHANGED << files, dirs, disk, createdPaths, toolVars, rtVars, execVars >>

\* context.cleanup() in the finally block of withTempFiles: the files first, then the
\* directories, then both lists are emptied; withTempFiles returns or rethrows
cleanup ==
    /\ callback \in {"returned", "threw"}
    /\ disk' = cleanupAll(cleanupAll(disk, files, FALSE), dirs, TRUE)
    /\ files' = <<>>
    /\ dirs' = <<>>
    /\ callback' = IF callback = "returned" THEN "resolved" ELSE "rejected"
    /\ UNCHANGED << createdPaths, toolVars, rtVars, execVars >>

NextTempFiles ==
    \/ createDir
    \/ createCMLFile
    \/ createFile
    \/ CallbackReturns
    \/ CallbackThrows
    \/ cleanup

SpecTempFiles == InitTempFiles /\ [][NextTempFiles]_vars

CleanedUp == callback \in {"resolved", "rejected"}

\* C24: once cleanup() has completed, after the callback returned or threw, no path
\* that was created through the context (by createDir, createCMLFile or createFile,
\* with or without a directory argument) exists any more, and the context tracks
\* no file and no directory.
C24_CleanupRemovesEverythingCreated ==
    CleanedUp => /\ createdPaths \cap disk = {}
                 /\ files = <<>>
                 /\ dirs = <<>>

(***************************************************************************)
(* CLIExecutor.execute: the child process, its timeout and its result      *)
(*                                                                         *)
(* proc is <<the ChildProcess>>: state is "running", "failed" (the spawn   *)
(* failed, the 'error' event is due), "exited" (the 'close' event is due)  *)
(* or "closed"; killed is ChildProcess.killed, which Node sets when kill() *)
(* has delivered a signal, not when the child has ended.                   *)
(***************************************************************************)
MaxOutput == 2   \* chunks of data the child writes to each of stdout and stderr

SpawnedProcess(state, ignoresSIGTERM) ==
    [state |-> state, killed |-> FALSE, signals |-> {}, exitCode |-> <<>>,
     ignoresSIGTERM |-> ignoresSIGTERM]

\* spawn(...) has returned and the handlers and the timeout are registered
InitExecute ==
    /\ currentModel = <<>>
    /\ uuids = 0
    /\ lastCall = NoCall
    /\ lastResult = NoResult
    /\ pc = "idle"
    /\ text = ""
    /\ parsed = <<>>
    /\ text2 = <<>>
    /\ parsed2 = <<>>
    /\ text3 = <<>>
    /\ NoTempFiles
    /\ \E state \in {"running", "failed"}, ignoresSIGTERM \in BOOLEAN :
           proc = <<SpawnedProcess(state, ignoresSIGTERM)>>
    /\ timedOut = FALSE
    /\ timeoutId = "armed"
    /\ killTimer = "none"
    /\ stdout = ""
    /\ stderr = ""
    /\ promise = <<>>

\* resolve(result): a promise keeps the first value it was resolved with
Resolve(result) == IF promise = <<>> THEN <<result>> ELSE promise

\* proc.kill(signal): the signal is sent and killed is set while the child has not
\* ended; afterwards kill returns false and changes nothing
kill(p, signal) ==
    IF p.state = "running"
    THEN [p EXCEPT !.killed = TRUE, !.signals = @ \cup {signal}]
    ELSE p

\* proc.stdout.on('data'): stdout += data.toString()
StdoutData ==
    /\ proc[1].state \in {"running", "exited"}
    /\ Len(stdout) < MaxOutput
    /\ stdout' = stdout \o "o"
    /\ UNCHANGED << proc, timedOut, timeoutId, killTimer, stderr, promise >>
    /\ UNCHANGED << toolVars, rtVars, tempVars >>

\* proc.stderr.on('data'): stderr += data.toString()
StderrData ==
    /\ proc[1].state \in {"running", "exited"}
    /\ Len(stderr) < MaxOutput
    /\ stderr' = stderr \o "e"
    /\ UNCHANGED << proc, timedOut, timeoutId, killTimer, stdout, promise >>
    /\ UNCHANGED << toolVars, rtVars, tempVars >>

\* proc.on('error'): the spawn failed
ProcessError ==
    /\ proc[1].state = "failed"
    /\ promise' = Resolve([success |-> FALSE, exitCode |-> <<>>, stdout |-> stdout,
                           stderr |-> stderr, error |-> <<"Process error">>,
                           timedOut |-> <<>>])
    /\ proc' = <<[proc[1] EXCEPT !.state = "exited", !.exitCode = <<-2>>]>>
    /\ UNCHANGED << timedOut, timeoutId, killTimer, stdout, stderr >>
    /\ UNCHANGED << toolVars, rtVars, tempVars >>

\* The command ends by itself with an exit code
ChildExits ==
    /\ proc[1].state = "running"
    /\ \E code \in {0, 1} :
           proc' = <<[proc[1] EXCEPT !.state = "exited", !.exitCode = <<code>>]>>
    /\ UNCHANGED << timedOut, timeoutId, killTimer, stdout, stderr, promise >>
    /\ UNCHANGED << toolVars, rtVars, tempVars >>

\* A signal ends the child: SIGKILL always, SIGTERM unless the child ignores it.
\* The exit code of a child ended by a signal is null.
ChildTerminated ==
    /\ proc[1].state = "running"
    /\ \/ "SIGKILL" \in proc[1].signals
       \/ "SIGTERM" \in proc[1].signals /\ ~proc[1].ignoresSIGTERM
    /\ proc' = <<[proc[1] EXCEPT !.state = "exited"]>>
    /\ UNCHANGED << timedOut, timeoutId, killTimer, stdout, stderr, promise >>
    /\ UNCHANGED << toolVars, rtVars, tempVars >>

\* The result of the first 'close' handler
CloseResult(code) ==
    IF timedOut
    THEN [success |-> FALSE, exitCode |-> code, stdout |-> stdout, stderr |-> stderr,
          error |-> <<"Command timed out">>, timedOut |-> <<TRUE>>]
    ELSE [success |-> code = <<0>>, exitCode |-> code, stdout |-> stdout,
          stderr |-> stderr,
          error |-> IF code # <<0>> THEN <<"Command exited with code">> ELSE <<>>,
          timedOut |-> <<>>]

\* proc.on('close'): the first handler resolves, the second clears the timeout
Close ==
    /\ proc[1].state = "exited"
    /\ proc' = <<[proc[1] EXCEPT !.state = "closed"]>>
    /\ promise' = Resolve(CloseResult(proc[1].exitCode))
    /\ timeoutId' = IF timeoutId = "armed" THEN "cleared" ELSE timeoutId
    /\ UNCHANGED << timedOut, killTimer, stdout, stderr >>
    /\ UNCHANGED << toolVars, rtVars, tempVars >>

\* The timeout callback: timedOut = true, SIGTERM, and the 5 second timer is set
Timeout ==
    /\ timeoutId = "armed"
    /\ timeoutId' = "fired"
    /\ timedOut' = TRUE
    /\ proc' = <<kill(proc[1], "SIGTERM")>>
    /\ killTimer' = "armed"
    /\ UNCHANGED << stdout, stderr, promise >>
    /\ UNCHANGED << toolVars, rtVars, tempVars >>

\* The callback of the 5 second timer: if (!proc.killed) proc.kill('SIGKILL')
ForceKill ==
    /\ killTimer = "armed"
    /\ killTimer' = "fired"
    /\ proc' = IF ~proc[1].killed THEN <<kill(proc[1], "SIGKILL")>> ELSE proc
    /\ UNCHANGED << timedOut, timeoutId, stdout, stderr, promise >>
    /\ UNCHANGED << toolVars, rtVars, tempVars >>

NextExecute ==
    \/ StdoutData
    \/ StderrData
    \/ ProcessError
    \/ ChildExits
    \/ ChildTerminated
    \/ Close
    \/ Timeout
    \/ ForceKill

\* Timers fire, events are dispatched and the operating system ends a child that a
\* signal kills; a command need not end by itself and need not write output.
SpecExecute ==
    /\ InitExecute
    /\ [][NextExecute]_vars
    /\ WF_vars(ProcessError)
    /\ WF_vars(ChildTerminated)
    /\ WF_vars(Close)
    /\ WF_vars(Timeout)
    /\ WF_vars(ForceKill)

\* The timeout has fired while the child was running
TimedOutRunning == timedOut /\ "SIGTERM" \in proc[1].signals

ResolvedTimedOut ==
    /\ promise # <<>>
    /\ promise[1].timedOut = <<TRUE>>
    /\ promise[1].success = FALSE

\* C25: when the command is still running as its timeout fires, SIGTERM is sent, and
\* the promise of execute eventually resolves with timedOut = true and
\* success = false, also for a child that ignores SIGTERM (SIGKILL follows 5 seconds
\* later while the child is still running).
C25_TimedOutCommandResolves == TimedOutRunning ~> ResolvedTimedOut

\* The forced kill: once the 5 second timer has fired on a child that is still
\* running, SIGKILL has been sent
SIGKILLSentIfStillRunning ==
    (killTimer = "fired" /\ proc[1].state = "running") => "SIGKILL" \in proc[1].signals

\* The names the ends of a relationship carry
RelationshipEnds(rel) ==
    IF IsSymmetric(rel) THEN {rel.participant1, rel.participant2}
    ELSE {rel.upstream, rel.downstream}

\* C26: once the model has a context map, after any sequence of createBoundedContext,
\* updateBoundedContext, deleteBoundedContext, createRelationship, updateRelationship
\* and deleteRelationship calls the context map lists exactly the names of the
\* existing bounded contexts, each once, and every participant, upstream and
\* downstream of a relationship is the name of an existing bounded context.
C26_ContextMapNamesExistingContexts ==
    (currentModel # <<>> /\ currentModel[1].contextMap # <<>>)
        => LET model == currentModel[1]
               listed == model.contextMap[1].boundedContexts
               rels == model.contextMap[1].relationships
           IN  /\ Range(listed) = Names(model.boundedContexts)
               /\ Len(listed) = Cardinality(Range(listed))
               /\ Len(model.boundedContexts) = Len(listed)
               /\ \A i \in 1..Len(rels) :
                      RelationshipEnds(rels[i]) \subseteq Names(model.boundedContexts)

\* Sales has been renamed to Billing while a relationship named Sales at both ends
C26_Witness ==
    /\ lastCall.op = "updateBoundedContext"
    /\ lastCall.params.name = "Sales"
    /\ lastCall.params.newName = "Billing"
    /\ lastResult.success
    /\ currentModel[1].contextMap # <<>>
    /\ Len(currentModel[1].contextMap[1].relationships) = 1
    /\ RelationshipEnds(currentModel[1].contextMap[1].relationships[1]) = {"Billing"}
    /\ currentModel[1].contextMap[1].boundedContexts = <<"Billing">>

\* A bounded context has been deleted together with the relationship that named it
C26_DeletedReached ==
    /\ lastCall.op = "deleteBoundedContext"
    /\ lastResult.success
    /\ currentModel[1].contextMap # <<>>
    /\ uuids = 1
    /\ currentModel[1].contextMap[1].relationships = <<>>
    /\ Len(currentModel[1].contextMap[1].boundedContexts) = 1

(***************************************************************************)
(* Entities and the aggregate root: the entity tools on two entity names   *)
(***************************************************************************)
EntityInputs == {"Order", "Customer"}

NamedEntityParams ==
    [contextName : {"Sales"}, aggregateName : {"Orders"}, name : EntityInputs,
     aggregateRoot : BOOLEAN, attributes : {NoAttributes}]

BatchEntities ==
    [name : EntityInputs, aggregateRoot : BOOLEAN, attributes : {NoAttributes}]

BatchEntityParams ==
    { [contextName |-> "Sales", aggregateName |-> "Orders", failFast |-> <<>>,
       identifiers |-> <<>>, valueObjects |-> <<>>, entities |-> els,
       domainEvents |-> <<>>, commands |-> <<>>, services |-> <<>>] :
      els \in UNION { [1..n -> BatchEntities] : n \in 1..MaxBatch } }

AddNamedEntity ==
    \E p \in NamedEntityParams :
        Call("addEntity", p, addEntity(currentModel, p)) /\ UNCHANGED uuids

BatchAddEntities ==
    \E p \in BatchEntityParams :
        Call("batchAddElements", p, batchAddElements(currentModel, p)) /\ UNCHANGED uuids

DeleteNamedEntity ==
    \E p \in [contextName : {"Sales"}, aggregateName : {"Orders"}, name : EntityInputs] :
        Call("deleteEntity", p, deleteEntity(currentModel, p)) /\ UNCHANGED uuids

NextEntities ==
    \/ CreateModel
    \/ CreateBoundedContext
    \/ CreateAggregate
    \/ AddNamedEntity
    \/ BatchAddEntities
    \/ DeleteNamedEntity
    \/ Return

SpecEntities == Init /\ [][NextEntities]_vars

\* C27: after any sequence of addEntity, batchAddElements and deleteEntity calls at
\* most one entity of an aggregate has aggregateRoot = true, and the aggregate's
\* aggregateRoot is set exactly when there is such an entity and refers to it, an
\* entity of the aggregate.
C27_OneRootAndItsReference ==
    currentModel # <<>>
        => \A i \in 1..Len(ModelAggregates(currentModel[1])) :
               LET agg == ModelAggregates(currentModel[1])[i]
               IN  /\ RootCount(agg) <= 1
                   /\ agg.aggregateRoot # 0 <=> RootCount(agg) = 1
                   /\ agg.aggregateRoot # 0
                          => /\ agg.aggregateRoot \in 1..Len(agg.entities)
                             /\ agg.entities[agg.aggregateRoot].aggregateRoot

\* C28: after any sequence of successful createAggregate, updateAggregate and
\* deleteAggregate calls the names of the aggregates of a bounded context, those of
\* its modules included, are pairwise distinct.
C28_AggregateNamesDistinct ==
    currentModel # <<>>
        => \A b \in 1..Len(currentModel[1].boundedContexts) :
               LET aggs == AllAggregates(currentModel[1].boundedContexts[b])
               IN  Len(aggs) = Cardinality(Names(aggs))

\* The tools of the context map together with the tools that rename and delete
\* aggregates
NextExposedAggregates ==
    \/ CreateModel
    \/ CreateBoundedContext
    \/ UpdateBoundedContext
    \/ DeleteBoundedContext
    \/ CreateAggregate
    \/ UpdateAggregate
    \/ DeleteAggregate
    \/ CreateContextMap
    \/ CreateRelationship
    \/ UpdateRelationship
    \/ DeleteRelationship
    \/ Return

SpecExposedAggregates == Init /\ [][NextExposedAggregates]_vars

\* The names of the aggregates the bounded contexts called name own
AggregatesOwnedBy(model, name) ==
    UNION { Names(AllAggregates(model.boundedContexts[b])) :
              b \in { i \in 1..Len(model.boundedContexts) :
                        model.boundedContexts[i].name = name } }

\* C29: after any sequence of createRelationship, updateRelationship, updateAggregate,
\* deleteAggregate and bounded-context calls every name in the exposedAggregates of
\* an upstream-downstream relationship is the name of an aggregate that the
\* relationship's upstream bounded context owns, directly or in one of its modules.
C29_ExposedAggregatesOwnedByUpstream ==
    currentModel # <<>>
        => \A i \in 1..Len(ModelRelationships(currentModel[1])) :
               LET rel == ModelRelationships(currentModel[1])[i]
               IN  rel.type = "UpstreamDownstream"
                       => Range(rel.exposedAggregates)
                              \subseteq AggregatesOwnedBy(currentModel[1], rel.upstream)

(***************************************************************************)
(* loadModel: reading a document from a file into the current model        *)
(***************************************************************************)
WorkingDirectory == "/work"

\* The files of the file system: content is <<>> for a file that cannot be read
LoadableFiles ==
    { [path |-> "missing.cml", content |-> <<>>],
      [path |-> "models/sales.cml", content |-> << PlainOrderDocument >>],
      [path |-> "/srv/billing.cml",
       content |-> << "ContextMap ShopMap {\n contains Billing\n}\nBoundedContext Billing {\n}\n" >>],
      [path |-> "guide.cml", content |-> << OrderDocument >>],
      [path |-> "broken.cml", content |-> << "BoundedContext Sales {" >>],
      [path |-> "notes.txt", content |-> << "BoundedContext Sales {\n} $\n" >>] }

\* path.resolve(path) of a path without . and .. segments
resolve(path) == IF startsWith(path, "/") THEN path ELSE WorkingDirectory \o "/" \o path

RECURSIVE AfterLastSlash(_)
AfterLastSlash(path) ==
    LET slash == FindFrom(path, 1, "/")
    IN  IF slash = 0 THEN path ELSE AfterLastSlash(SubSeq(path, slash + 1, Len(path)))

\* path.basename(path, ext)
basename(path, ext) ==
    LET base == AfterLastSlash(path)
    IN  IF endsWith(base, ext) /\ base # ext
        THEN SubSeq(base, 1, Len(base) - Len(ext)) ELSE base

LoadFailure(error, parseErrors) ==
    [success |-> FALSE, error |-> error, parseErrors |-> parseErrors]

\* A file that cannot be read makes readFile throw: the catch block returns the failure
loadModel_assigningBeforeCheck(cm, p, content) ==
    IF content = <<>> THEN Out(cm, LoadFailure("ENOENT: no such file or directory", <<>>))
    ELSE LET parseResult == parseCML(content[1])
         IN  Out(parseResult.model,
                 LoadFailure("Failed to parse CML file", parseResult.errors))

\* loadModel(params), content being what readFile finds at the resolved path
loadModel(cm, p, content) ==
    IF content = <<>> THEN Out(cm, LoadFailure("ENOENT: no such file or directory", <<>>))
    ELSE LET parseResult == parseCML(content[1])
             resolvedPath == resolve(p.path)
             name == basename(resolvedPath, ".cml")
         IN  IF ~parseResult.success \/ parseResult.model = <<>>
             THEN Out(cm, LoadFailure("Failed to parse CML file", parseResult.errors))
             ELSE Out(<< [filePath |-> resolvedPath, name |-> name,
                          contextMap |-> parseResult.model[1].contextMap,
                          boundedContexts |-> parseResult.model[1].boundedContexts] >>,
                      Success(name))

LoadModel ==
    \E file \in LoadableFiles :
        Call("loadModel", [path |-> file.path], loadModel(currentModel, [path |-> file.path],
                                                          file.content))
            /\ UNCHANGED uuids

NextLoad ==
    \/ CreateModel
    \/ CreateBoundedContext
    \/ DeleteBoundedContext
    \/ CreateAggregate
    \/ LoadModel
    \/ Return

SpecLoad == Init /\ [][NextLoad]_vars

\* What readFile finds at a path of the file system
FileContent(path) == (CHOOSE file \in LoadableFiles : file.path = path).content

\* The document of the file parses
Parses(content) == content # <<>> /\ parseCML(content[1]).success

\* C30: a loadModel call that fails, because the file cannot be read or because
\* parseCML returns success = false, leaves the current model as it was; the current
\* model is replaced only when the document parsed, and then it is the newly parsed
\* model alone (its bounded contexts and context map), named after the file.
C30_LoadReplacesOnlyOnSuccess ==
    [][(pc = "idle" /\ lastCall'.op = "loadModel")
          => LET content == FileContent(lastCall'.params.path)
             IN  IF Parses(content)
                 THEN /\ lastResult'.success
                      /\ currentModel'[1].boundedContexts
                             = parseCML(content[1]).model[1].boundedContexts
                      /\ currentModel'[1].contextMap = parseCML(content[1]).model[1].contextMap
                      /\ currentModel'[1].filePath = resolve(lastCall'.params.path)
                      /\ DOMAIN currentModel'[1]
                             = {"name", "filePath", "contextMap", "boundedContexts"}
                 ELSE /\ ~lastResult'.success
                      /\ currentModel' = currentModel]_vars

\* A document that does not parse has been loaded over a model with a bounded context,
\* which is still the current model
C30_Witness ==
    /\ lastCall.op = "loadModel"
    /\ lastCall.params.path = "guide.cml"
    /\ ~lastResult.success
    /\ lastResult.parseErrors # <<>>
    /\ currentModel # <<>>
    /\ currentModel[1].name = "Shop"
    /\ Len(currentModel[1].boundedContexts) = 1

\* A file that cannot be read has been loaded over a loaded model
C30_UnreadableReached ==
    /\ lastCall.op = "loadModel"
    /\ lastCall.params.path = "missing.cml"
    /\ ~lastResult.success
    /\ currentModel # <<>>
    /\ currentModel[1].name = "sales"

\* A document has been loaded successfully
C30_ReplacedReached ==
    /\ lastCall.op = "loadModel"
    /\ lastResult.success
    /\ currentModel[1].name = "billing"
    /\ currentModel[1].filePath = "/srv/billing.cml"
    /\ Names(currentModel[1].boundedContexts) = {"Billing"}

====
